---- MODULE Spec2Model ----
(***************************************************************************)
(* Prompt Library: the prompt store (PromptLibrary), its two JSON files,   *)
(* the tree built by getRootEntries, and the command handlers that call    *)
(* the store.                                                              *)
(*                                                                         *)
(* Representation.  Ids and labels are strings.  A prompt text is a        *)
(* sequence of tokens (words, blanks, placeholder phrases); the empty      *)
(* sequence stands for both '' and undefined, which the code treats alike  *)
(* (both falsy).  An absent optional string field is Undef, an absent      *)
(* tags / children array is <<>> (the code reads both through `|| []`).    *)
(***************************************************************************)
EXTENDS Integers, Sequences, FiniteSets, TLC

VARIABLES
    prompts,            \* PromptLibrary.prompts: the in-memory forest
    allPrompts,         \* PromptLibrary.allPrompts: flat list of Prompt
    nextId,             \* PromptLibrary.nextId
    userFile,           \* categories array of user-prompts.json on disk
    favorites,          \* userPreferences.favorites
    recentPrompts,      \* userPreferences.recentPrompts
    showFavoritesOnly,  \* PromptLibrary.showFavoritesOnly
    showRecentOnly,     \* PromptLibrary.showRecentOnly
    last,               \* record of the last store call / command (observer)
    lastIssued,         \* number of the id addPrompt returned last (observer)
    saveFailures,       \* number of failed writes so far (observer)
    suspended,          \* addPrompt calls waiting at the evaluator's await
    analytics           \* usageAnalytics in globalState and in the manager

vars == <<prompts, allPrompts, nextId, userFile, favorites, recentPrompts,
          showFavoritesOnly, showRecentOnly, last, lastIssued, saveFailures,
          suspended, analytics>>

(***************************************************************************)
(* Bounds                                                                  *)
(***************************************************************************)
MaxId == 5            \* addPrompt is not started once nextId exceeds it
MaxSaveFailures == 1  \* cap on the number of failed writes of the user file

Undef == "undefined"
NaN == -1
NoEval == "none"

(***************************************************************************)
(* Number <-> string conversions of ids                                    *)
(***************************************************************************)
Decimal == <<"1", "2", "3", "4", "5", "6", "7", "8", "9", "10", "11", "12">>

\* Number.prototype.toString for the positive ids generateId produces
numToString(n) == Decimal[n]

\* parseInt(s, 10): the number for a decimal string, NaN for anything else
parseInt(s) ==
    IF \E n \in DOMAIN Decimal : Decimal[n] = s
    THEN CHOOSE n \in DOMAIN Decimal : Decimal[n] = s
    ELSE NaN

(***************************************************************************)
(* Prompt text                                                             *)
(***************************************************************************)
Blank == " "
Phrases == {"e.g.,", "example:", "for example:", "such as:"}

\* String.prototype.toLowerCase on the tokens used
toLowerCase(t) ==
    CASE t = "Example:" -> "example:"
      [] t = "E.G.," -> "e.g.,"
      [] t = "Deploy" -> "deploy"
      [] OTHER -> t

RECURSIVE trimStart(_)
trimStart(s) ==
    IF s # <<>> /\ Head(s) = Blank THEN trimStart(Tail(s)) ELSE s

RECURSIVE trimEnd(_)
trimEnd(s) ==
    IF s # <<>> /\ s[Len(s)] = Blank
    THEN trimEnd(SubSeq(s, 1, Len(s) - 1))
    ELSE s

\* String.prototype.trim
trim(s) == trimEnd(trimStart(s))

\* prompt.replace(/e\.g\.,|example:|for example:|such as:/gi, '')
stripPhrases(s) == SelectSeq(s, LAMBDA t : toLowerCase(t) \notin Phrases)

\* the cleaning addPrompt and updatePrompt apply to the prompt text
cleanPromptText(s) == trim(stripPhrases(s))

(***************************************************************************)
(* Entries and the JSON file format                                        *)
(***************************************************************************)
NullEntry ==
    [id |-> "null", label |-> Undef, type |-> "null", categoryType |-> Undef,
     prompt |-> <<>>, tags |-> <<>>, children |-> <<>>, parentId |-> Undef,
     categoryId |-> Undef, evaluation |-> NoEval]

\* system-prompts.json shipped with the extension (read-only)
SystemFile ==
    << [id |-> "dotnet", label |-> ".NET", type |-> "system",
        groups |-> << [id |-> "1", label |-> "Web API",
                       prompts |-> << [id |-> "2", label |-> "Endpoint",
                                       prompt |-> <<"implement">>,
                                       tags |-> <<"dotnet">>] >>] >>] >>

\* the file loadPrompts creates when user-prompts.json does not exist
InitialUserFile ==
    << [id |-> "user", label |-> "User Prompts", type |-> "user",
        groups |-> <<>>] >>

\* a user-prompts.json left by an earlier session
EarlierUserFile ==
    << [id |-> "user", label |-> "User Prompts", type |-> "user",
        groups |-> << [id |-> "4", label |-> "Default",
                       prompts |-> << [id |-> "3", label |-> "a",
                                       prompt |-> <<"w">>,
                                       tags |-> <<>>] >>] >>] >>

convertJsonToEntries(categories) ==
    [c \in 1..Len(categories) |->
        LET cat == categories[c] IN
        [id |-> cat.id, label |-> cat.label, type |-> "category",
         categoryType |-> cat.type, prompt |-> <<>>, tags |-> <<>>,
         children |->
            [g \in 1..Len(cat.groups) |->
                LET group == cat.groups[g] IN
                [id |-> group.id, label |-> group.label, type |-> "group",
                 categoryType |-> cat.type, prompt |-> <<>>, tags |-> <<>>,
                 children |->
                    [p \in 1..Len(group.prompts) |->
                        LET prompt == group.prompts[p] IN
                        [id |-> prompt.id, label |-> prompt.label,
                         type |-> "prompt", categoryType |-> cat.type,
                         prompt |-> prompt.prompt, tags |-> prompt.tags,
                         children |-> <<>>, parentId |-> group.id,
                         categoryId |-> cat.id, evaluation |-> NoEval]],
                 parentId |-> cat.id, categoryId |-> cat.id,
                 evaluation |-> NoEval]],
         parentId |-> Undef, categoryId |-> Undef, evaluation |-> NoEval]]

RECURSIVE Flatten(_)
Flatten(ss) == IF ss = <<>> THEN <<>> ELSE Head(ss) \o Flatten(Tail(ss))

\* allPrompts as loadPrompts rebuilds it from the categories read
extractAllPrompts(categories) ==
    Flatten([c \in 1..Len(categories) |->
        Flatten([g \in 1..Len(categories[c].groups) |->
            [p \in 1..Len(categories[c].groups[g].prompts) |->
                LET prompt == categories[c].groups[g].prompts[p] IN
                [id |-> prompt.id, label |-> prompt.label,
                 prompt |-> prompt.prompt, tags |-> prompt.tags,
                 evaluation |-> NoEval]]])])

Max2(a, b) == IF a > b THEN a ELSE b

\* getMaxId without the descent into entry.children
getMaxIdTopLevel(entries) ==
    IF entries = <<>> THEN 0
    ELSE LET ids == {parseInt(entries[i].id) : i \in 1..Len(entries)} \cup {0}
         IN  CHOOSE m \in ids : \A k \in ids : k <= m

RECURSIVE getMaxId(_)
getMaxId(entries) ==
    IF entries = <<>> THEN 0
    ELSE LET entry == Head(entries)
             id == parseInt(entry.id)
             own == IF id # NaN /\ id > 0 THEN id ELSE 0
         IN  Max2(Max2(own, getMaxId(entry.children)), getMaxId(Tail(entries)))

\* depth-first, pre-order: an entry, then its children, then its siblings
RECURSIVE findById(_, _)
findById(entries, id) ==
    IF entries = <<>> THEN NullEntry
    ELSE IF Head(entries).id = id THEN Head(entries)
    ELSE findById(Head(entries).children \o Tail(entries), id)

\* removeById that filters one level only
removeByIdTopLevel(entries, id) == SelectSeq(entries, LAMBDA e : e.id # id)

RECURSIVE removeById(_, _)
removeById(entries, id) ==
    IF entries = <<>> THEN <<>>
    ELSE LET entry == Head(entries) IN
         IF entry.id = id THEN removeById(Tail(entries), id)
         ELSE <<[entry EXCEPT !.children = removeById(entry.children, id)]>>
              \o removeById(Tail(entries), id)

\* The forest after the object findById(entries, id) returns has been
\* changed in place into `new` (the code mutates through the reference).
RECURSIVE assignFound(_, _, _)
assignFound(entries, id, new) ==
    IF entries = <<>> THEN <<>>
    ELSE LET entry == Head(entries) IN
         IF entry.id = id THEN <<new>> \o Tail(entries)
         ELSE IF findById(entry.children, id) # NullEntry
              THEN <<[entry EXCEPT
                        !.children = assignFound(entry.children, id, new)]>>
                   \o Tail(entries)
              ELSE <<entry>> \o assignFound(Tail(entries), id, new)

(***************************************************************************)
(* The store as a value: the fields of PromptLibrary the operations touch  *)
(* and the user file.                                                      *)
(***************************************************************************)
Lib == [prompts |-> prompts, allPrompts |-> allPrompts, nextId |-> nextId,
        userFile |-> userFile]

\* loadPrompts with both files present and well-formed
loadPrompts(lib) ==
    LET allCategories == SystemFile \o lib.userFile
        entries == convertJsonToEntries(allCategories)
    IN  [lib EXCEPT !.prompts = entries,
                    !.allPrompts = extractAllPrompts(allCategories),
                    !.nextId = getMaxId(entries) + 1]

\* userCategoriesToSave that writes every prompt without its tags
userCategoriesToSaveNoTags(entries) ==
    LET userEntries == SelectSeq(entries, LAMBDA e : e.categoryType = "user")
    IN  [c \in 1..Len(userEntries) |->
            [id |-> userEntries[c].id, label |-> userEntries[c].label,
             type |-> "user",
             groups |->
                [g \in 1..Len(userEntries[c].children) |->
                    LET group == userEntries[c].children[g] IN
                    [id |-> group.id, label |-> group.label,
                     prompts |->
                        [p \in 1..Len(group.children) |->
                            [id |-> group.children[p].id,
                             label |-> group.children[p].label,
                             prompt |-> group.children[p].prompt,
                             tags |-> <<>>]]]]]]

\* the categories array saveUserPromptsToJson writes
userCategoriesToSave(entries) ==
    LET userEntries == SelectSeq(entries, LAMBDA e : e.categoryType = "user")
    IN  [c \in 1..Len(userEntries) |->
            LET entry == userEntries[c]
                groups == SelectSeq(entry.children, LAMBDA ch : ch.type = "group")
            IN  [id |-> entry.id, label |-> entry.label, type |-> "user",
                 groups |->
                    [g \in 1..Len(groups) |->
                        LET ps == SelectSeq(groups[g].children,
                                            LAMBDA ch : ch.type = "prompt")
                        IN  [id |-> groups[g].id, label |-> groups[g].label,
                             prompts |->
                                [p \in 1..Len(ps) |->
                                    [id |-> ps[p].id, label |-> ps[p].label,
                                     prompt |-> ps[p].prompt,
                                     tags |-> ps[p].tags]]]]]]

\* saveUserPromptsToJson when the write succeeds
saveUserPromptsToJson(lib) ==
    [lib EXCEPT !.userFile = userCategoriesToSave(lib.prompts)]

(***************************************************************************)
(* Store operations.  Each returns the store afterwards, the value         *)
(* returned (ret), whether the call threw, and what it did on the way.     *)
(***************************************************************************)
EvalOutcomes == {"score", "undefined", "throws"}

\* the evaluation addPrompt attaches for each outcome of evaluatePrompt
addEvaluation(outcome) ==
    CASE outcome = "score" -> "evaluated"
      [] outcome = "undefined" -> "fallback65"
      [] outcome = "throws" -> "fallback60"

\* the new prompt always marked as a user prompt
inheritUserType(newPrompt, parent) ==
    [newPrompt EXCEPT !.categoryType = "user"]

\* newPrompt.categoryType = parent.categoryType
inheritCategoryType(newPrompt, parent) ==
    [newPrompt EXCEPT !.categoryType = parent.categoryType]

\* the parent object after addPrompt has attached newPrompt to it;
\* groupId is the id generateId would give a new default group
attachToParent(parent, newPrompt, groupId) ==
    IF parent.type = "category"
    THEN LET isGroup(i) == parent.children[i].type = "group"
             child == inheritCategoryType(newPrompt, parent)
         IN  IF \E i \in 1..Len(parent.children) : isGroup(i)
             THEN LET t == CHOOSE i \in 1..Len(parent.children) :
                              isGroup(i) /\ \A j \in 1..(i - 1) : ~isGroup(j)
                  IN  [parent EXCEPT !.children[t].children = Append(@, child)]
             ELSE [parent EXCEPT !.children = Append(@,
                      [id |-> groupId, label |-> "Default", type |-> "group",
                       categoryType |-> parent.categoryType, prompt |-> <<>>,
                       tags |-> <<>>, children |-> <<child>>,
                       parentId |-> parent.id, categoryId |-> Undef,
                       evaluation |-> NoEval])]
    ELSE IF parent.type = "group"
    THEN [parent EXCEPT
            !.children = Append(@, inheritCategoryType(newPrompt, parent))]
    ELSE parent

\* does attaching under this parent create a default group (second generateId)
createsGroup(parent) ==
    /\ parent.type = "category"
    /\ \A i \in 1..Len(parent.children) : parent.children[i].type # "group"

addPrompt(lib, label, promptIn, tags, parentId, outcome, saveOk) ==
    LET prompt == cleanPromptText(promptIn)
        newPromptId == numToString(lib.nextId)
        newPrompt == [id |-> newPromptId, label |-> label, type |-> "prompt",
                      categoryType |-> Undef, prompt |-> prompt, tags |-> tags,
                      children |-> <<>>, parentId |-> parentId,
                      categoryId |-> parentId,
                      evaluation |-> addEvaluation(outcome)]
        parent == IF parentId = Undef THEN NullEntry
                  ELSE findById(lib.prompts, parentId)
        newGroup == parent # NullEntry /\ createsGroup(parent)
        attached ==
            IF parent = NullEntry THEN lib.prompts
            ELSE assignFound(lib.prompts, parentId,
                    attachToParent(parent, newPrompt,
                                   numToString(lib.nextId + 1)))
        changed == [lib EXCEPT
                      !.nextId = IF newGroup THEN @ + 2 ELSE @ + 1,
                      !.prompts = attached,
                      !.allPrompts = Append(@,
                          [id |-> newPromptId, label |-> label,
                           prompt |-> prompt, tags |-> tags,
                           evaluation |-> addEvaluation(outcome)])]
    IN  IF saveOk
        THEN [lib |-> loadPrompts(loadPrompts(saveUserPromptsToJson(changed))),
              ret |-> newPromptId, threw |-> FALSE,
              evaluated |-> TRUE, wrote |-> TRUE]
        ELSE [lib |-> changed, ret |-> Undef, threw |-> TRUE,
              evaluated |-> TRUE, wrote |-> FALSE]

\* deletePrompt without the reload that follows the save
deletePromptNoReload(lib, id, saveOk) ==
    LET changed == [lib EXCEPT
                      !.prompts = removeById(@, id),
                      !.allPrompts = SelectSeq(@, LAMBDA p : p.id # id)]
    IN  IF saveOk
        THEN [lib |-> saveUserPromptsToJson(changed),
              ret |-> Undef, threw |-> FALSE,
              evaluated |-> FALSE, wrote |-> TRUE]
        ELSE [lib |-> changed, ret |-> Undef, threw |-> TRUE,
              evaluated |-> FALSE, wrote |-> FALSE]

deletePrompt(lib, id, saveOk) ==
    LET changed == [lib EXCEPT
                      !.prompts = removeById(@, id),
                      !.allPrompts = SelectSeq(@, LAMBDA p : p.id # id)]
    IN  IF saveOk
        THEN [lib |-> loadPrompts(saveUserPromptsToJson(changed)),
              ret |-> Undef, threw |-> FALSE,
              evaluated |-> FALSE, wrote |-> TRUE]
        ELSE [lib |-> changed, ret |-> Undef, threw |-> TRUE,
              evaluated |-> FALSE, wrote |-> FALSE]

\* the evaluation updatePrompt puts into `updates` for each evaluator outcome
updateEvaluation(outcome) ==
    CASE outcome = "score" -> "evaluated"
      [] outcome = "undefined" -> "fallback65"
      [] outcome = "throws" -> "fallback60"

\* the first element of allPrompts with this id, updated field by field
updateInAll(all, id, updates) ==
    IF \E i \in 1..Len(all) : all[i].id = id
    THEN LET k == CHOOSE i \in 1..Len(all) :
                     all[i].id = id /\ \A j \in 1..(i - 1) : all[j].id # id
         IN  [all EXCEPT ![k] =
                [id |-> @.id,
                 label |-> IF updates.label # "" THEN updates.label ELSE @.label,
                 prompt |-> IF updates.prompt # <<>> THEN updates.prompt
                                                      ELSE @.prompt,
                 tags |-> updates.tags,
                 evaluation |-> IF updates.evaluation # NoEval
                                THEN updates.evaluation ELSE @.evaluation]]
    ELSE all

\* updatePrompt(id, {label, prompt, tags}), the shape every caller passes
updatePrompt(lib, id, label, promptIn, tags, outcome, saveOk) ==
    LET entry == findById(lib.prompts, id)
        prompt == IF promptIn # <<>> THEN cleanPromptText(promptIn) ELSE promptIn
        evaluates == prompt # <<>>
        updates == [label |-> label, prompt |-> prompt, tags |-> tags,
                    evaluation |-> IF evaluates THEN updateEvaluation(outcome)
                                                ELSE NoEval]
        assigned == [entry EXCEPT
                        !.label = updates.label,
                        !.prompt = updates.prompt,
                        !.tags = updates.tags,
                        !.evaluation = IF evaluates THEN updates.evaluation
                                                     ELSE @]
        changed == [lib EXCEPT
                      !.prompts = assignFound(@, id, assigned),
                      !.allPrompts = updateInAll(@, id, updates)]
    IN  IF entry = NullEntry
        THEN [lib |-> lib, ret |-> Undef, threw |-> FALSE,
              evaluated |-> FALSE, wrote |-> FALSE]
        ELSE IF saveOk
        THEN [lib |-> loadPrompts(saveUserPromptsToJson(changed)),
              ret |-> Undef, threw |-> FALSE,
              evaluated |-> evaluates, wrote |-> TRUE]
        ELSE [lib |-> changed, ret |-> Undef, threw |-> TRUE,
              evaluated |-> evaluates, wrote |-> FALSE]

RECURSIVE PromptIds(_)
PromptIds(entries) ==
    IF entries = <<>> THEN {}
    ELSE (IF Head(entries).type = "prompt" THEN {Head(entries).id} ELSE {})
         \cup PromptIds(Head(entries).children) \cup PromptIds(Tail(entries))

RECURSIVE AllIds(_)
AllIds(entries) ==
    IF entries = <<>> THEN {}
    ELSE {Head(entries).id} \cup AllIds(Head(entries).children)
         \cup AllIds(Tail(entries))

(***************************************************************************)
(* Inputs                                                                  *)
(***************************************************************************)
Labels == {"b"}
Bodies == {<<"e.g.,", Blank, "v">>, <<"Example:">>}
TagLists == {<<"t">>}
MissingId == "missing"

NoCall == [op |-> "none", arg |-> Undef, ret |-> Undef, threw |-> FALSE,
           label |-> Undef, body |-> <<>>, tags |-> <<>>, parentId |-> Undef,
           evaluated |-> FALSE,
           wrote |-> FALSE, storeCalled |-> FALSE, messages |-> <<>>,
           entryType |-> Undef, exported |-> <<>>, files |-> <<>>,
           returned |-> TRUE, evaluation |-> NoEval, api |-> Undef,
           values |-> <<>>, cancelled |-> FALSE, calls |-> 0]

\* no usage recorded: the default object of trackPromptInteraction and
\* loadAnalytics
UsageIds == {"2", "3"}

EmptyUsage == [totalUses |-> 0, promptUsage |-> [id \in UsageIds |-> 0]]

\* nothing stored under 'usageAnalytics', the manager not constructed
NoAnalytics == [present |-> FALSE, stored |-> EmptyUsage,
                manager |-> EmptyUsage, shared |-> FALSE,
                byReference |-> FALSE]

Init ==
    /\ userFile \in {InitialUserFile, EarlierUserFile}
    /\ LET lib == loadPrompts([prompts |-> <<>>, allPrompts |-> <<>>,
                               nextId |-> 0, userFile |-> userFile])
       IN  /\ prompts = lib.prompts
           /\ allPrompts = lib.allPrompts
           /\ nextId = lib.nextId
    /\ favorites = <<>>
    /\ recentPrompts = <<>>
    /\ showFavoritesOnly = FALSE
    /\ showRecentOnly = FALSE
    /\ last = NoCall
    /\ lastIssued = 0
    /\ saveFailures = 0
    /\ suspended = <<>>
    /\ analytics = NoAnalytics

SetLib(lib) ==
    /\ prompts' = lib.prompts
    /\ allPrompts' = lib.allPrompts
    /\ nextId' = lib.nextId
    /\ userFile' = lib.userFile

prefs == <<favorites, recentPrompts, showFavoritesOnly, showRecentOnly>>

SaveOutcomes == IF saveFailures < MaxSaveFailures THEN {TRUE, FALSE} ELSE {TRUE}

CountFailure(r) ==
    saveFailures' = IF r.threw THEN saveFailures + 1 ELSE saveFailures

\* the evaluation is not written to the user file (convertEntriesToCategories)
\* and the store is reloaded after a successful save: the evaluator's outcome
\* then leaves no trace, and one outcome stands for all of them
OutcomesFor(saveOk) == IF saveOk THEN {"score"} ELSE EvalOutcomes

AddPrompt ==
    \E label \in Labels, body \in Bodies, tags \in TagLists,
       parentId \in AllIds(prompts) \cup {Undef, MissingId},
       saveOk \in SaveOutcomes :
    \E outcome \in OutcomesFor(saveOk) :
        /\ nextId <= MaxId
        /\ \E r \in {addPrompt(Lib, label, body, tags, parentId, outcome, saveOk)} :
               /\ SetLib(r.lib)
               /\ last' = [NoCall EXCEPT
                             !.op = "add", !.ret = r.ret, !.threw = r.threw,
                             !.label = label, !.body = body, !.tags = tags,
                             !.parentId = parentId,
                             !.evaluated = r.evaluated,
                             !.wrote = r.wrote, !.storeCalled = TRUE]
               /\ lastIssued' = IF r.threw THEN lastIssued ELSE parseInt(r.ret)
               /\ CountFailure(r)
        /\ UNCHANGED <<suspended, analytics>>
        /\ UNCHANGED prefs

\* every caller passes the id of a prompt entry or an id that may be absent
UpdatePrompt ==
    \E id \in PromptIds(prompts) \cup {MissingId},
       label \in Labels, body \in Bodies, tags \in TagLists,
       saveOk \in SaveOutcomes :
    \E outcome \in OutcomesFor(saveOk) :
        /\ \E r \in {updatePrompt(Lib, id, label, body, tags, outcome, saveOk)} :
               /\ SetLib(r.lib)
               /\ last' = [NoCall EXCEPT
                             !.op = "update", !.arg = id, !.threw = r.threw,
                             !.label = label, !.body = body, !.tags = tags,
                             !.evaluated = r.evaluated, !.wrote = r.wrote,
                             !.storeCalled = TRUE]
               /\ CountFailure(r)
        /\ UNCHANGED <<suspended, analytics>>
        /\ UNCHANGED <<prefs, lastIssued>>

DeletePrompt ==
    \E id \in AllIds(prompts) \cup {MissingId}, saveOk \in SaveOutcomes :
        /\ \E r \in {deletePrompt(Lib, id, saveOk)} :
               /\ SetLib(r.lib)
               /\ last' = [NoCall EXCEPT
                             !.op = "delete", !.arg = id, !.threw = r.threw,
                             !.wrote = r.wrote, !.storeCalled = TRUE]
               /\ CountFailure(r)
        /\ UNCHANGED <<suspended, analytics>>
        /\ UNCHANGED <<prefs, lastIssued>>

Next == AddPrompt \/ UpdatePrompt \/ DeletePrompt

Spec == Init /\ [][Next]_vars


(***************************************************************************)
(* The tree shown to the user (getRootEntries) and the lookups on it       *)
(***************************************************************************)
Prefs == [favorites |-> favorites, recentPrompts |-> recentPrompts,
          showFavoritesOnly |-> showFavoritesOnly,
          showRecentOnly |-> showRecentOnly]

\* collation order of the labels that get sorted
LabelOrder == <<".NET", "a", "b", "imp">>

\* String.prototype.localeCompare
localeCompare(x, y) ==
    (CHOOSE i \in DOMAIN LabelOrder : LabelOrder[i] = x)
    - (CHOOSE i \in DOMAIN LabelOrder : LabelOrder[i] = y)

RECURSIVE insertByLabel(_, _)
insertByLabel(sorted, e) ==
    IF sorted = <<>> THEN <<e>>
    ELSE IF localeCompare(Head(sorted).label, e.label) <= 0
         THEN <<Head(sorted)>> \o insertByLabel(Tail(sorted), e)
         ELSE <<e>> \o sorted

\* Array.prototype.sort (stable) with (a, b) => a.label.localeCompare(b.label)
RECURSIVE sortByLabel(_)
sortByLabel(entries) ==
    IF entries = <<>> THEN <<>>
    ELSE insertByLabel(sortByLabel(SubSeq(entries, 1, Len(entries) - 1)),
                       entries[Len(entries)])

\* label.toLowerCase().replace(/\s+/g, '-')
labelSlug(label) ==
    CASE label = "User Prompts" -> "user-prompts"
      [] label = "Default" -> "default"
      [] OTHER -> label

createPromptEntry(p) ==
    [id |-> p.id, label |-> p.label, type |-> "prompt",
     categoryType |-> "system", prompt |-> p.prompt, tags |-> p.tags,
     children |-> <<>>, parentId |-> Undef, categoryId |-> Undef,
     evaluation |-> NoEval]

\* ids.map(id => allPrompts.find(...)).filter(defined).map(createPromptEntry)
RECURSIVE promptEntriesFor(_, _)
promptEntriesFor(ids, all) ==
    IF ids = <<>> THEN <<>>
    ELSE LET hits == SelectSeq(all, LAMBDA p : p.id = Head(ids)) IN
         (IF hits = <<>> THEN <<>> ELSE <<createPromptEntry(Head(hits))>>)
         \o promptEntriesFor(Tail(ids), all)

getFavoritePrompts(lib, P) == promptEntriesFor(P.favorites, lib.allPrompts)

getRecentPrompts(lib, P) == promptEntriesFor(P.recentPrompts, lib.allPrompts)

RECURSIVE extractAllUserPrompts(_)
extractAllUserPrompts(categories) ==
    Flatten([c \in 1..Len(categories) |->
        Flatten([k \in 1..Len(categories[c].children) |->
            LET child == categories[c].children[k] IN
            IF child.type = "prompt"
            THEN <<[child EXCEPT
                      !.tags = Append(@, labelSlug(categories[c].label))]>>
            ELSE extractAllUserPrompts(<<child>>)])])

RECURSIVE getChildPromptCount(_)
getChildPromptCount(entry) ==
    IF entry.type = "prompt" THEN 1
    ELSE IF entry.children = <<>> THEN 0
    ELSE getChildPromptCount(Head(entry.children))
         + getChildPromptCount([entry EXCEPT !.children = Tail(@)])

countText(n) == IF n = 0 THEN "0" ELSE numToString(n)

sectionEntry(id, label, categoryType, children) ==
    [id |-> id, label |-> label, type |-> "category",
     categoryType |-> categoryType, prompt |-> <<>>, tags |-> <<>>,
     children |-> children, parentId |-> Undef, categoryId |-> Undef,
     evaluation |-> NoEval]

\* the section of a preference list: `Name (n)` or `Name (Empty)`
listSection(id, name, children) ==
    sectionEntry(id,
        IF Len(children) > 0
        THEN name \o " (" \o countText(Len(children)) \o ")"
        ELSE name \o " (Empty)",
        "system", children)

emptyUserSection ==
    sectionEntry("user-section", "Your Prompts (Empty)", "user",
        <<[id |-> "no-user-prompts",
           label |-> "Click to create your first prompt", type |-> "prompt",
           categoryType |-> "user", prompt |-> <<>>,
           tags |-> <<"getting-started">>, children |-> <<>>,
           parentId |-> Undef, categoryId |-> Undef, evaluation |-> NoEval]>>)

RECURSIVE SumCounts(_)
SumCounts(entries) ==
    IF entries = <<>> THEN 0
    ELSE getChildPromptCount(Head(entries)) + SumCounts(Tail(entries))

getRootEntries(lib, P) ==
    LET systemCategories ==
            SelectSeq(lib.prompts, LAMBDA e : e.categoryType = "system")
        userCategories ==
            SelectSeq(lib.prompts, LAMBDA e : e.categoryType = "user")
        flattened == extractAllUserPrompts(userCategories)
    IN  (IF Len(P.favorites) > 0 \/ P.showFavoritesOnly
         THEN <<listSection("favorites", "Favorites",
                            getFavoritePrompts(lib, P))>>
         ELSE <<>>)
        \o
        (IF Len(P.recentPrompts) > 0 \/ P.showRecentOnly
         THEN <<listSection("recent", "Recent", getRecentPrompts(lib, P))>>
         ELSE <<>>)
        \o
        (IF ~P.showFavoritesOnly /\ ~P.showRecentOnly
         THEN (IF Len(systemCategories) > 0
               THEN <<sectionEntry("system-section",
                         "System Prompts (" \o
                             countText(SumCounts(systemCategories)) \o ")",
                         "system", sortByLabel(systemCategories))>>
               ELSE <<>>)
              \o
              (IF Len(userCategories) > 0 /\ Len(flattened) > 0
               THEN <<sectionEntry("user-section",
                         "Your Prompts (" \o countText(Len(flattened)) \o ")",
                         "user", sortByLabel(flattened))>>
               ELSE <<emptyUserSection>>)
         ELSE <<>>)

\* traverse(items, parent) of findParentCategory
RECURSIVE traverseForParent(_, _, _)
traverseForParent(items, parent, itemId) ==
    IF items = <<>> THEN NullEntry
    ELSE LET item == Head(items) IN
         IF item.id = itemId THEN parent
         ELSE LET result == traverseForParent(item.children,
                                IF item.type = "category" THEN item ELSE parent,
                                itemId)
              IN  IF result # NullEntry THEN result
                  ELSE traverseForParent(Tail(items), parent, itemId)

findParentCategory(entries, itemId) ==
    traverseForParent(entries, NullEntry, itemId)

getUserCategoryId(lib) ==
    LET hits == SelectSeq(lib.prompts,
                    LAMBDA e : e.categoryType = "user" /\ e.type = "category")
    IN  IF hits = <<>> THEN Undef ELSE Head(hits).id

RECURSIVE AllNodes(_)
AllNodes(entries) ==
    IF entries = <<>> THEN {}
    ELSE {Head(entries)} \cup AllNodes(Head(entries).children)
         \cup AllNodes(Tail(entries))

\* the entries of the tree items a command can be invoked on
TreeEntries == AllNodes(getRootEntries(Lib, Prefs))

(***************************************************************************)
(* Command handlers                                                        *)
(***************************************************************************)
Msg(kind, text) == [kind |-> kind, text |-> text]

IsMention(t) == t \in {"#tip", "@me"}

RECURSIVE removeMentionsAfterBlank(_)
removeMentionsAfterBlank(s) ==
    IF Len(s) < 2 THEN s
    ELSE IF s[1] = Blank /\ IsMention(s[2])
         THEN removeMentionsAfterBlank(SubSeq(s, 3, Len(s)))
         ELSE <<s[1]>> \o removeMentionsAfterBlank(Tail(s))

\* prompt.replace(/(?:\s|^)[@#]\w+\b/g, '')
removeMentions(s) ==
    IF s # <<>> /\ IsMention(s[1])
    THEN removeMentionsAfterBlank(Tail(s))
    ELSE removeMentionsAfterBlank(s)

CommandPhrases == Phrases \cup {"(example)"}

\* .replace(/e\.g\.,|example:|for example:|such as:|\(example\)|\beg:\s*/gi, '')
RECURSIVE removeExampleMarkers(_)
removeExampleMarkers(s) ==
    IF s = <<>> THEN <<>>
    ELSE IF toLowerCase(Head(s)) \in CommandPhrases
         THEN removeExampleMarkers(Tail(s))
    ELSE IF toLowerCase(Head(s)) = "eg:"
         THEN removeExampleMarkers(trimStart(Tail(s)))
    ELSE <<Head(s)>> \o removeExampleMarkers(Tail(s))

\* the cleaning the add and edit commands apply before calling the store
\* (no text of the model has the form `Create a React component for .. with ..`)
commandCleanPrompt(s) == trim(removeExampleMarkers(removeMentions(s)))

\* String.prototype.trim on one piece of the comma-separated tags input
trimPiece(piece) ==
    CASE piece = " t " -> "t"
      [] piece = " " -> ""
      [] OTHER -> piece

\* tagsInput ? tagsInput.split(',').map(t => t.trim()).filter(...) : []
\* (the input is given as its comma-separated pieces; <<>> is no input)
parseTags(pieces) ==
    SelectSeq([i \in 1..Len(pieces) |-> trimPiece(pieces[i])],
              LAMBDA t : t # "")

\* toggleFavorite on the favorites array
toggleFavorite(favs, promptId) ==
    IF \E i \in 1..Len(favs) : favs[i] = promptId
    THEN LET index == CHOOSE i \in 1..Len(favs) :
                         favs[i] = promptId /\ \A j \in 1..(i - 1) : favs[j] # promptId
         IN  SubSeq(favs, 1, index - 1) \o SubSeq(favs, index + 1, Len(favs))
    ELSE Append(favs, promptId)

\* what a command did: the store afterwards and the trace of its effects
Done(lib, messages, storeCalled, evaluated, wrote, saveFailed, threw) ==
    [lib |-> lib, messages |-> messages, storeCalled |-> storeCalled,
     evaluated |-> evaluated, wrote |-> wrote, saveFailed |-> saveFailed,
     threw |-> threw]

\* prompt-library.deletePrompt
cmdDeletePrompt(lib, P, entry, answer, saveOk) ==
    IF entry.type # "prompt"
    THEN Done(lib, <<Msg("error", "Invalid prompt selected")>>,
              FALSE, FALSE, FALSE, FALSE, FALSE)
    ELSE IF answer # "Delete"
    THEN Done(lib, <<Msg("warning", "Are you sure you want to delete")>>,
              FALSE, FALSE, FALSE, FALSE, FALSE)
    ELSE LET r == deletePrompt(lib, entry.id, saveOk) IN
         Done(r.lib,
              <<Msg("warning", "Are you sure you want to delete"),
                IF r.threw
                THEN Msg("error", "Failed to delete prompt. Please try again.")
                ELSE Msg("info", "deleted")>>,
              TRUE, r.evaluated, r.wrote, r.threw, FALSE)

\* prompt-library.editPrompt
cmdEditPrompt(lib, P, entry, newLabel, newPrompt, newTagsInput, outcome, saveOk) ==
    IF entry.type # "prompt"
    THEN Done(lib, <<Msg("error", "Invalid prompt selected")>>,
              FALSE, FALSE, FALSE, FALSE, FALSE)
    ELSE IF newLabel = "" \/ newPrompt = <<>>
    THEN Done(lib, <<>>, FALSE, FALSE, FALSE, FALSE, FALSE)
    ELSE LET r == updatePrompt(lib, entry.id, newLabel,
                               commandCleanPrompt(newPrompt),
                               parseTags(newTagsInput), outcome, saveOk)
         IN  Done(r.lib,
                  <<IF r.threw THEN Msg("error", "Failed to update prompt")
                               ELSE Msg("info", "updated successfully")>>,
                  TRUE, r.evaluated, r.wrote, r.threw, FALSE)

(***************************************************************************)
(* Import                                                                  *)
(***************************************************************************)
NoStoreCall(lib) ==
    [lib |-> lib, ret |-> Undef, threw |-> FALSE, evaluated |-> FALSE,
     wrote |-> FALSE, called |-> FALSE, added |-> 0, updated |-> 0]

StoreCall(r, added, updated) ==
    [lib |-> r.lib, ret |-> r.ret, threw |-> r.threw,
     evaluated |-> r.evaluated, wrote |-> r.wrote, called |-> TRUE,
     added |-> added, updated |-> updated]

\* `existing` is found and its parent category in the tree is a user one
importSkipsUserPrompt(rootEntries, promptId) ==
    LET existing == findById(rootEntries, promptId) IN
    /\ existing # NullEntry
    /\ findParentCategory(rootEntries, existing.id).categoryType = "user"

\* one iteration of the loop over importData.prompts
importOne(lib, P, prompt, action, outcome, saveOk) ==
    LET rootEntries == getRootEntries(lib, P)
        existing == findById(rootEntries, prompt.id)
    IN  IF importSkipsUserPrompt(rootEntries, prompt.id) THEN NoStoreCall(lib)
        ELSE IF action = "add" /\ existing = NullEntry
        THEN StoreCall(addPrompt(lib, prompt.label, prompt.prompt, prompt.tags,
                                 Undef, outcome, saveOk), 1, 0)
        ELSE IF action = "merge" /\ existing # NullEntry
                /\ findParentCategory(rootEntries, existing.id).categoryType
                       = "system"
        THEN StoreCall(updatePrompt(lib, prompt.id, prompt.label, prompt.prompt,
                                    prompt.tags, outcome, saveOk), 0, 1)
        ELSE IF action = "merge" /\ existing = NullEntry
        THEN StoreCall(addPrompt(lib, prompt.label, prompt.prompt, prompt.tags,
                                 Undef, outcome, saveOk), 1, 0)
        ELSE NoStoreCall(lib)

Combine(first, rest) ==
    [lib |-> rest.lib, ret |-> rest.ret, threw |-> rest.threw,
     evaluated |-> first.evaluated \/ rest.evaluated,
     wrote |-> first.wrote \/ rest.wrote,
     called |-> first.called \/ rest.called,
     added |-> first.added + rest.added,
     updated |-> first.updated + rest.updated]

RECURSIVE importLoop(_, _, _, _, _, _)
importLoop(lib, P, data, action, outcome, saveOk) ==
    IF data = <<>> THEN NoStoreCall(lib)
    ELSE LET first == importOne(lib, P, Head(data), action, outcome, saveOk) IN
         IF first.threw THEN first
         ELSE Combine(first,
                      importLoop(first.lib, P, Tail(data), action, outcome, saveOk))

\* the `replace` branch: every imported prompt is added again
RECURSIVE importAddAll(_, _, _, _)
importAddAll(lib, data, outcome, saveOk) ==
    IF data = <<>> THEN NoStoreCall(lib)
    ELSE LET first == StoreCall(addPrompt(lib, Head(data).label,
                                          Head(data).prompt, Head(data).tags,
                                          Undef, outcome, saveOk), 1, 0)
         IN  IF first.threw THEN first
             ELSE Combine(first, importAddAll(first.lib, Tail(data), outcome, saveOk))

\* userCategory.children = [] on the entry found in the tree; the categories
\* under the system section are the objects of the forest itself
clearUserCategoryInTree(lib, P) ==
    LET currentEntries == getRootEntries(lib, P)
        userCategoryId == getUserCategoryId(lib)
        userCategory == IF userCategoryId = Undef THEN NullEntry
                        ELSE findById(currentEntries, userCategoryId)
    IN  IF userCategory # NullEntry
           /\ findById(lib.prompts, userCategoryId) = userCategory
        THEN [lib EXCEPT !.prompts = assignFound(@, userCategoryId,
                                        [userCategory EXCEPT !.children = <<>>])]
        ELSE lib

\* importPrompts; file = <<>> stands for a dismissed open dialog
importPrompts(lib, P, file, proceed, action, outcome, saveOk) ==
    IF file = <<>>
    THEN Done(lib, <<>>, FALSE, FALSE, FALSE, FALSE, FALSE)
    ELSE LET importData == file[1] IN
    IF ~importData.valid
    THEN Done(lib, <<Msg("error", "Import failed: Invalid import file format")>>,
              FALSE, FALSE, FALSE, FALSE, FALSE)
    ELSE IF importData.type # "system-prompts-only"
            /\ importData.exportType = Undef /\ proceed # "Continue"
    THEN Done(lib, <<Msg("warning", "This file may contain mixed prompts")>>,
              FALSE, FALSE, FALSE, FALSE, FALSE)
    ELSE IF action = Undef
    THEN Done(lib, <<>>, FALSE, FALSE, FALSE, FALSE, FALSE)
    ELSE LET looped == importLoop(lib, P, importData.prompts, action,
                                  outcome, saveOk)
             replaced ==
                IF action = "replace" /\ ~looped.threw
                THEN Combine(looped,
                        importAddAll(clearUserCategoryInTree(looped.lib, P),
                                     importData.prompts, outcome, saveOk))
                ELSE looped
         IN  Done(replaced.lib,
                  <<IF replaced.threw THEN Msg("error", "Import failed")
                    ELSE Msg("info", "Successfully imported")>>,
                  replaced.called, replaced.evaluated, replaced.wrote,
                  replaced.threw, FALSE)

(***************************************************************************)
(* The extension as the user drives it, with a user file that can be       *)
(* written (every save succeeds)                                           *)
(***************************************************************************)
MaxFavorites == 1     \* toggleFavorite adds no id beyond this length

CommandLabels == {"", "b"}
CommandBodies == {<<>>, <<"v", Blank, "#tip">>, <<"Example:">>}
CommandTagInputs == {<<>>, <<" t ", " ">>}

ImportedPrompt(id) ==
    [id |-> id, label |-> "imp", prompt |-> <<"x">>, tags |-> <<"it">>]

ImportFiles ==
    { <<>>,
      <<[valid |-> FALSE, type |-> Undef, exportType |-> Undef,
         prompts |-> <<>>]>>,
      <<[valid |-> TRUE, type |-> Undef, exportType |-> Undef,
         prompts |-> <<ImportedPrompt("3")>>]>> }
    \cup
    { <<[valid |-> TRUE, type |-> "system-prompts-only",
         exportType |-> "system-prompts-only", prompts |-> ps]>> :
        ps \in { <<ImportedPrompt("2")>>, <<ImportedPrompt("3")>>,
                 <<ImportedPrompt("3"), ImportedPrompt("9")>> } }

\* preferences an earlier session left in globalState
StoredPreferences ==
    { [favorites |-> <<>>, recentPrompts |-> <<>>],
      [favorites |-> <<>>, recentPrompts |-> <<"3">>] }

InitUI ==
    /\ userFile \in {InitialUserFile, EarlierUserFile}
    /\ LET lib == loadPrompts([prompts |-> <<>>, allPrompts |-> <<>>,
                               nextId |-> 0, userFile |-> userFile])
       IN  /\ prompts = lib.prompts
           /\ allPrompts = lib.allPrompts
           /\ nextId = lib.nextId
    /\ \E stored \in StoredPreferences :
           /\ favorites = stored.favorites
           /\ recentPrompts = stored.recentPrompts
    /\ showFavoritesOnly = FALSE
    /\ showRecentOnly = FALSE
    /\ last = NoCall
    /\ lastIssued = 0
    /\ saveFailures = 0
    /\ suspended = <<>>
    /\ analytics = NoAnalytics

Record(op, entry, d) ==
    /\ SetLib(d.lib)
    /\ last' = [NoCall EXCEPT
                  !.op = op, !.arg = entry.id, !.entryType = entry.type,
                  !.threw = d.threw, !.messages = d.messages,
                  !.storeCalled = d.storeCalled,
                  !.evaluated = d.evaluated, !.wrote = d.wrote]
    /\ saveFailures' = IF d.saveFailed THEN saveFailures + 1
                                        ELSE saveFailures

\* Inputs are drawn only as far as the handler gets to ask for them.
CmdEditPrompt ==
    \E entry \in TreeEntries :
    \E label \in (IF entry.type = "prompt" THEN CommandLabels ELSE {""}) :
    \E body \in (IF label = "" THEN {<<>>} ELSE CommandBodies) :
    \E tagsInput \in (IF body = <<>> THEN {<<>>} ELSE CommandTagInputs) :
    \E outcome \in (IF commandCleanPrompt(body) = <<>> THEN {"score"}
                                                      ELSE EvalOutcomes) :
    \E saveOk \in {TRUE} :
        /\ \E d \in {cmdEditPrompt(Lib, Prefs, entry, label, body, tagsInput,
                                   outcome, saveOk)} :
               Record("cmdEdit", entry, d)
        /\ UNCHANGED <<suspended, analytics>>
        /\ UNCHANGED <<prefs, lastIssued>>

CmdDeletePrompt ==
    \E entry \in TreeEntries :
    \E answer \in (IF entry.type = "prompt" THEN {"Delete", "Cancel"}
                                            ELSE {"Cancel"}) :
    \E saveOk \in {TRUE} :
        /\ \E d \in {cmdDeletePrompt(Lib, Prefs, entry, answer, saveOk)} :
               Record("cmdDelete", entry, d)
        /\ UNCHANGED <<suspended, analytics>>
        /\ UNCHANGED <<prefs, lastIssued>>

CmdToggleFavorite ==
    \E entry \in TreeEntries :
        /\ entry.type = "prompt" =>
              \/ \E i \in 1..Len(favorites) : favorites[i] = entry.id
              \/ Len(favorites) < MaxFavorites
        /\ favorites' = IF entry.type = "prompt"
                        THEN toggleFavorite(favorites, entry.id)
                        ELSE favorites
        /\ last' = [NoCall EXCEPT
                      !.op = "cmdToggleFavorite", !.arg = entry.id,
                      !.entryType = entry.type,
                      !.messages =
                          IF entry.type = "prompt"
                          THEN <<Msg("info", "favorites")>>
                          ELSE <<Msg("error", "Invalid prompt selected")>>]
        /\ UNCHANGED <<suspended, analytics>>
        /\ UNCHANGED <<prompts, allPrompts, nextId, userFile, recentPrompts,
                       showFavoritesOnly, showRecentOnly, lastIssued,
                       saveFailures>>

SetView(op, favoritesOnly, recentOnly, text) ==
    /\ showFavoritesOnly' = favoritesOnly
    /\ showRecentOnly' = recentOnly
    /\ last' = [NoCall EXCEPT !.op = op, !.messages = <<Msg("info", text)>>]
    /\ UNCHANGED <<suspended, analytics>>
    /\ UNCHANGED <<prompts, allPrompts, nextId, userFile, favorites,
                   recentPrompts, lastIssued, saveFailures>>

CmdShowFavoritesOnly ==
    SetView("cmdShowFavoritesOnly", TRUE, FALSE, "Showing favorites only")

CmdShowRecentPrompts ==
    SetView("cmdShowRecentPrompts", FALSE, TRUE, "Showing recent prompts only")

CmdShowAllPrompts ==
    SetView("cmdShowAllPrompts", FALSE, FALSE, "Showing all prompts")

IsForeign(file) ==
    /\ file # <<>>
    /\ file[1].valid
    /\ file[1].type # "system-prompts-only"
    /\ file[1].exportType = Undef

CmdImportPrompts ==
    \E file \in ImportFiles :
    \E proceed \in (IF IsForeign(file) THEN {"Continue", "Cancel"}
                                       ELSE {"Continue"}) :
    \E action \in (IF file # <<>> /\ file[1].valid /\ proceed = "Continue"
                   THEN {"replace", "add", "merge", Undef} ELSE {Undef}) :
    \E outcome \in (IF action = Undef THEN {"score"} ELSE EvalOutcomes) :
    \E saveOk \in {TRUE} :
        /\ nextId <= MaxId
        /\ \E d \in {importPrompts(Lib, Prefs, file, proceed, action,
                                   outcome, saveOk)} :
               Record("import", [NullEntry EXCEPT !.id = action], d)
        /\ UNCHANGED <<suspended, analytics>>
        /\ UNCHANGED <<prefs, lastIssued>>

NextUI ==
    \/ CmdEditPrompt
    \/ CmdDeletePrompt
    \/ CmdToggleFavorite
    \/ CmdShowFavoritesOnly
    \/ CmdShowRecentPrompts
    \/ CmdShowAllPrompts
    \/ CmdImportPrompts

SpecUI == InitUI /\ [][NextUI]_vars

(***************************************************************************)
(* Variables in prompt texts                                               *)
(*                                                                         *)
(* A placeholder {{name}} is one token of a text.  `{a}` and `{{a b}}` are *)
(* tokens that look like one and are not matched by /\{\{(\w+)\}\}/.  In a *)
(* value, `$&` and `$$` are the replacement patterns of String.replace.    *)
(***************************************************************************)
Placeholders == {"{{a}}", "{{A}}", "{{b}}", "{{language}}"}

\* match[1] of /\{\{(\w+)\}\}/ on a placeholder token
placeholderName(t) ==
    CASE t = "{{a}}" -> "a"
      [] t = "{{A}}" -> "A"
      [] t = "{{b}}" -> "b"
      [] t = "{{language}}" -> "language"

\* String.prototype.toLowerCase on a variable name
lowerName(name) == IF name = "A" THEN "a" ELSE name

Includes(seq, x) == \E i \in 1..Len(seq) : seq[i] = x

\* extractVariables: the names matched, each pushed unless already included
RECURSIVE extractVariablesFrom(_, _)
extractVariablesFrom(prompt, variables) ==
    IF prompt = <<>> THEN variables
    ELSE extractVariablesFrom(Tail(prompt),
            IF Head(prompt) \in Placeholders
               /\ ~Includes(variables, placeholderName(Head(prompt)))
            THEN Append(variables, placeholderName(Head(prompt)))
            ELSE variables)

\* every match pushed, also a name that is already included
extractVariablesAll(prompt) ==
    LET matches == SelectSeq(prompt, LAMBDA t : t \in Placeholders) IN
    [i \in 1..Len(matches) |-> placeholderName(matches[i])]

extractVariables(prompt) == extractVariablesFrom(prompt, <<>>)

\* the text String.replace puts in place of one match: the replacement
\* string with its patterns expanded
RECURSIVE expandReplacement(_, _)
expandReplacement(value, matched) ==
    IF value = <<>> THEN <<>>
    ELSE (CASE Head(value) = "$&" -> <<matched>>
            [] Head(value) = "$$" -> <<"$">>
            [] OTHER -> <<Head(value)>>)
         \o expandReplacement(Tail(value), matched)

\* result.replace(new RegExp(`\\{\\{${variable}\\}\\}`, 'gi'), value)
RECURSIVE replaceVariable(_, _, _)
replaceVariable(text, variable, value) ==
    IF text = <<>> THEN <<>>
    ELSE (IF Head(text) \in Placeholders
             /\ lowerName(placeholderName(Head(text))) = lowerName(variable)
          THEN expandReplacement(value, Head(text))
          ELSE <<Head(text)>>)
         \o replaceVariable(Tail(text), variable, value)

\* substituteVariables; values is Object.entries(values): <<name, value>>
\* pairs in insertion order
RECURSIVE substituteVariables(_, _)
substituteVariables(prompt, values) ==
    IF values = <<>> THEN prompt
    ELSE substituteVariables(
             replaceVariable(prompt, Head(values)[1], Head(values)[2]),
             Tail(values))

(***************************************************************************)
(* Prompts relevant to an editor context (ContextIntegrationManager)       *)
(*                                                                         *)
(* Scores are kept in hundredths, so that usageCount * 0.15 is an integer. *)
(* A context is [type, language]; it has no projectType and no errorCode,  *)
(* and its file name contains neither `test` nor `config`.  No word of a   *)
(* text, label or tag of the model contains a keyword as a proper part, so *)
(* String.includes on a text is membership of the word.                    *)
(***************************************************************************)
RelevantLimit == 10   \* .slice(0, 10)

\* extractAllPromptEntries: prompt entries with a non-empty text, pre-order
RECURSIVE extractAllPromptEntries(_)
extractAllPromptEntries(entries) ==
    IF entries = <<>> THEN <<>>
    ELSE (IF Head(entries).type = "prompt" /\ Head(entries).prompt # <<>>
          THEN <<Head(entries)>> ELSE <<>>)
         \o extractAllPromptEntries(Head(entries).children)
         \o extractAllPromptEntries(Tail(entries))

\* promptText.includes(word) for one of the words
textIncludes(text, words) ==
    \E i \in 1..Len(text) : toLowerCase(text[i]) \in words

\* tags.includes(word) for one of the words
tagsInclude(tags, words) == \E i \in 1..Len(tags) : tags[i] \in words

\* prompt.label.toLowerCase()
labelLower(label) ==
    CASE label = "Endpoint" -> "endpoint"
      [] label = "Debug" -> "debug"
      [] OTHER -> label

Bonus(condition, points) == IF condition THEN points ELSE 0

\* the switch on context.type (types other than these two have no case
\* that matches a text of the model)
typeBonus(prompt, context) ==
    CASE context.type = "error" ->
            Bonus(textIncludes(prompt.prompt, {"debug", "error", "fix"}), 1000)
            + Bonus(textIncludes(prompt.prompt, {"troubleshoot", "solve"}), 800)
            + Bonus(tagsInclude(prompt.tags, {"debug", "error", "troubleshoot"}),
                    600)
      [] context.type = "api" ->
            Bonus(textIncludes(prompt.prompt, {"api", "endpoint"}), 800)
            + Bonus(textIncludes(prompt.prompt, {"rest", "graphql"}), 600)
            + Bonus(tagsInclude(prompt.tags, {"api", "web", "rest"}), 500)
      [] OTHER -> 0

languageBonus(prompt, context) ==
    IF context.language = Undef THEN 0
    ELSE Bonus(textIncludes(prompt.prompt, {context.language})
                   \/ labelLower(prompt.label) = context.language, 400)
         + Bonus(tagsInclude(prompt.tags, {context.language}), 300)

\* Math.min(usageCount * 0.15, 3) and the boost for a recent use; usage is
\* the analytics record: uses and last use (day / week / older) per id
usageBonus(prompt, usage) ==
    LET hits == SelectSeq(usage, LAMBDA u : u.id = prompt.id) IN
    IF hits = <<>> THEN 0
    ELSE LET u == Head(hits) IN
         (IF u.uses * 15 < 300 THEN u.uses * 15 ELSE 300)
         + (CASE u.lastUsed = "day" -> 200
              [] u.lastUsed = "week" -> 100
              [] OTHER -> 0)

calculateRelevanceScore(prompt, context, usage) ==
    LET score == 100 + typeBonus(prompt, context)
                 + languageBonus(prompt, context) + usageBonus(prompt, usage)
    IN  IF score > 0 THEN score ELSE 0

\* Array.prototype.sort (stable) with (a, b) => b.score - a.score
RECURSIVE insertByScore(_, _)
insertByScore(sorted, item) ==
    IF sorted = <<>> THEN <<item>>
    ELSE IF Head(sorted).score >= item.score
         THEN <<Head(sorted)>> \o insertByScore(Tail(sorted), item)
         ELSE <<item>> \o sorted

RECURSIVE sortByScore(_)
sortByScore(items) ==
    IF items = <<>> THEN <<>>
    ELSE insertByScore(sortByScore(SubSeq(items, 1, Len(items) - 1)),
                       items[Len(items)])

scoredPrompts(rootEntries, context, usage) ==
    LET allEntries == extractAllPromptEntries(rootEntries) IN
    sortByScore(SelectSeq(
        [i \in 1..Len(allEntries) |->
            [prompt |-> allEntries[i],
             score |-> calculateRelevanceScore(allEntries[i], context, usage)]],
        LAMBDA item : item.score > 0))

\* every scored prompt kept, however many there are
getRelevantPromptsUncut(rootEntries, context, usage) ==
    LET scored == scoredPrompts(rootEntries, context, usage) IN
    [i \in 1..Len(scored) |-> scored[i].prompt]

getRelevantPrompts(rootEntries, context, usage) ==
    LET scored == scoredPrompts(rootEntries, context, usage)
        top == IF Len(scored) > RelevantLimit
               THEN SubSeq(scored, 1, RelevantLimit) ELSE scored
    IN  [i \in 1..Len(top) |-> top[i].prompt]

(***************************************************************************)
(* Using a prompt: variables are asked for, the text goes to the clipboard *)
(* and the prompt becomes the most recent one                              *)
(***************************************************************************)
RecentLimit == 10     \* recentPrompts.slice(0, 10)

\* splice(index, 1) at indexOf(x), when x is there
removeFirst(seq, x) ==
    IF Includes(seq, x)
    THEN LET index == CHOOSE i \in 1..Len(seq) :
                         seq[i] = x /\ \A j \in 1..(i - 1) : seq[j] # x
         IN  SubSeq(seq, 1, index - 1) \o SubSeq(seq, index + 1, Len(seq))
    ELSE seq

\* addToRecent without the slice
addToRecentUncut(recent, promptId) == <<promptId>> \o removeFirst(recent, promptId)

\* addToRecent on the recentPrompts array
addToRecent(recent, promptId) ==
    LET added == <<promptId>> \o removeFirst(recent, promptId) IN
    IF Len(added) > RecentLimit THEN SubSeq(added, 1, RecentLimit) ELSE added

\* an input box: answered with a value, or dismissed (undefined)
Answered(value) == [dismissed |-> FALSE, value |-> value]
Dismissed == [dismissed |-> TRUE, value |-> <<>>]

\* getPredefinedVariable: of the names of the model only `language` is
\* predefined (context.language is always a string)
IsPredefined(variable) == lowerName(variable) = "language"

\* promptForCustomVariables; inputs are the answers of the input boxes in
\* the order they are shown
RECURSIVE promptForCustomVariables(_, _, _)
promptForCustomVariables(variables, language, inputs) ==
    IF variables = <<>> THEN [cancelled |-> FALSE, values |-> <<>>]
    ELSE LET variable == Head(variables) IN
         IF IsPredefined(variable)
         THEN LET rest == promptForCustomVariables(Tail(variables), language,
                                                   inputs)
              IN  [rest EXCEPT !.values = <<<<variable, <<language>>>>>> \o @]
         ELSE IF Head(inputs).dismissed
         THEN [cancelled |-> TRUE, values |-> <<>>]
         ELSE LET rest == promptForCustomVariables(Tail(variables), language,
                                                   Tail(inputs))
              IN  [rest EXCEPT !.values =
                      <<<<variable, Head(inputs).value>>>> \o @]

\* copyPromptToClipboard
copyPromptToClipboard(prompt, language, inputs, clipboardOk) ==
    LET variables == extractVariables(prompt)
        asked == promptForCustomVariables(variables, language, inputs)
    IN  IF asked.cancelled
        THEN [copied |-> FALSE, text |-> <<>>, cancelled |-> TRUE,
              messages |-> <<Msg("warning",
                  "Variable substitution cancelled. Prompt not copied.")>>]
        ELSE IF ~clipboardOk
        THEN [copied |-> FALSE, text |-> <<>>, cancelled |-> FALSE,
              messages |-> <<Msg("error", "Failed to process prompt")>>]
        ELSE [copied |-> TRUE, text |-> substituteVariables(prompt, asked.values),
              cancelled |-> FALSE, messages |-> <<>>]

\* the prompt made the most recent one before it is copied
cmdUsePromptRecentFirst(recent, entry, language, inputs, clipboardOk) ==
    IF entry.prompt = <<>>
    THEN [recent |-> recent, text |-> <<>>, cancelled |-> FALSE,
          messages |-> <<Msg("error",
              "No prompt available for the selected item.")>>]
    ELSE LET c == copyPromptToClipboard(entry.prompt, language, inputs,
                                        clipboardOk)
         IN  [recent |-> addToRecent(recent, entry.id), text |-> c.text,
              cancelled |-> c.cancelled,
              messages |-> c.messages \o
                  <<IF c.copied THEN Msg("info", "Prompt copied to clipboard")
                    ELSE Msg("error", "Failed to copy prompt to clipboard.")>>]

\* prompt-library.usePrompt
cmdUsePrompt(recent, entry, language, inputs, clipboardOk) ==
    IF entry.prompt = <<>>
    THEN [recent |-> recent, text |-> <<>>, cancelled |-> FALSE,
          messages |-> <<Msg("error",
              "No prompt available for the selected item.")>>]
    ELSE LET c == copyPromptToClipboard(entry.prompt, language, inputs,
                                        clipboardOk)
         IN  IF c.copied
             THEN [recent |-> addToRecent(recent, entry.id), text |-> c.text,
                   cancelled |-> FALSE,
                   messages |-> <<Msg("info", "Prompt copied to clipboard")>>]
             ELSE [recent |-> recent, text |-> <<>>, cancelled |-> c.cancelled,
                   messages |-> c.messages \o <<Msg("error",
                       "Failed to copy prompt to clipboard. Please try again.")>>]

\* promptForContextVariables: one input box for every remaining variable
RECURSIVE promptForContextVariables(_, _)
promptForContextVariables(variables, inputs) ==
    IF variables = <<>> THEN [cancelled |-> FALSE, values |-> <<>>]
    ELSE IF Head(inputs).dismissed THEN [cancelled |-> TRUE, values |-> <<>>]
    ELSE LET rest == promptForContextVariables(Tail(variables), Tail(inputs))
         IN  [rest EXCEPT !.values =
                 <<<<Head(variables), Head(inputs).value>>>> \o @]

\* createContextSubstitutions for a context [type, language]
createContextSubstitutions(context) ==
    IF context.language = Undef THEN <<>>
    ELSE <<<<"language", <<context.language>>>>>>

\* ContextIntegrationManager.executeContextPrompt
executeContextPrompt(prompt, context, inputs, clipboardOk) ==
    LET substituted == substituteVariables(prompt.prompt,
                           createContextSubstitutions(context))
        remainingVariables == extractVariables(substituted)
        asked == promptForContextVariables(remainingVariables, inputs)
    IN  IF asked.cancelled
        THEN [text |-> <<>>, cancelled |-> TRUE,
              messages |-> <<Msg("error",
                  "Failed to execute prompt: User cancelled variable input")>>]
        ELSE IF ~clipboardOk
        THEN [text |-> <<>>, cancelled |-> FALSE,
              messages |-> <<Msg("error", "Failed to execute prompt")>>]
        ELSE [text |-> substituteVariables(substituted, asked.values),
              cancelled |-> FALSE,
              messages |-> <<Msg("info", "Context-aware prompt copied")>>]

(***************************************************************************)
(* Export                                                                  *)
(***************************************************************************)
\* extractAllPromptData: every prompt entry with a non-empty text, pre-order
RECURSIVE extractAllPromptData(_)
extractAllPromptData(entries) ==
    IF entries = <<>> THEN <<>>
    ELSE LET item == Head(entries) IN
         (IF item.type = "prompt" /\ item.prompt # <<>>
          THEN <<[id |-> item.id, label |-> item.label, prompt |-> item.prompt,
                  tags |-> item.tags, categoryId |-> item.categoryId]>>
          ELSE <<>>)
         \o extractAllPromptData(item.children)
         \o extractAllPromptData(Tail(entries))

\* the prompts exportPrompts puts in exportData.prompts
systemPromptsToExport(lib, P) ==
    LET rootEntries == getRootEntries(lib, P)
        all == extractAllPromptData(rootEntries)
    IN  SelectSeq(all, LAMBDA p :
            findParentCategory(rootEntries, p.id).categoryType = "system")

\* exportPrompts; uri = FALSE stands for a dismissed save dialog
exportPrompts(lib, P, uri) ==
    LET systemPrompts == systemPromptsToExport(lib, P) IN
    IF uri
    THEN [written |-> TRUE, prompts |-> systemPrompts,
          messages |-> <<Msg("info", "Successfully exported")>>]
    ELSE [written |-> FALSE, prompts |-> <<>>, messages |-> <<>>]

CmdExportPrompts ==
    \E uri \in BOOLEAN :
    \E x \in {exportPrompts(Lib, Prefs, uri)} :
        /\ last' = [NoCall EXCEPT !.op = "export", !.wrote = x.written,
                                  !.exported = x.prompts,
                                  !.messages = x.messages]
        /\ UNCHANGED <<suspended, analytics>>
        /\ UNCHANGED <<prompts, allPrompts, nextId, userFile, prefs,
                       lastIssued, saveFailures>>

(***************************************************************************)
(* The extension as the user browses it: favorites, views, export          *)
(***************************************************************************)
\* a user-prompts.json whose prompt has variables
TemplateUserFile ==
    << [id |-> "user", label |-> "User Prompts", type |-> "user",
        groups |-> << [id |-> "4", label |-> "Default",
                       prompts |-> << [id |-> "3", label |-> "a",
                                       prompt |-> <<"{{language}}", "{{a}}",
                                                    "{{b}}">>,
                                       tags |-> <<>>] >>] >>] >>

InitUse ==
    /\ userFile \in {InitialUserFile, EarlierUserFile, TemplateUserFile}
    /\ LET lib == loadPrompts([prompts |-> <<>>, allPrompts |-> <<>>,
                               nextId |-> 0, userFile |-> userFile])
       IN  /\ prompts = lib.prompts
           /\ allPrompts = lib.allPrompts
           /\ nextId = lib.nextId
    /\ \E stored \in StoredPreferences :
           /\ favorites = stored.favorites
           /\ recentPrompts = stored.recentPrompts
    /\ showFavoritesOnly = FALSE
    /\ showRecentOnly = FALSE
    /\ last = NoCall
    /\ lastIssued = 0
    /\ saveFailures = 0
    /\ suspended = <<>>
    /\ analytics = NoAnalytics

\* the answers to n input boxes: the first k answered, the next dismissed
InputsFor(n) ==
    {[i \in 1..n |-> IF i <= k THEN Answered(<<"v">>) ELSE Dismissed] :
        k \in 0..n}

EditorLanguages == {"ts"}

CmdUsePrompt ==
    \E entry \in TreeEntries :
    \E language \in EditorLanguages :
    \E inputs \in InputsFor(Len(SelectSeq(extractVariables(entry.prompt),
                                          LAMBDA v : ~IsPredefined(v)))) :
    \E clipboardOk \in BOOLEAN :
    \E r \in {cmdUsePrompt(recentPrompts, entry, language, inputs,
                           clipboardOk)} :
        /\ recentPrompts' = r.recent
        /\ last' = [NoCall EXCEPT
                      !.op = "cmdUse", !.arg = entry.id,
                      !.entryType = entry.type, !.ret = r.text,
                      !.cancelled = r.cancelled, !.messages = r.messages]
        /\ UNCHANGED <<suspended, analytics>>
        /\ UNCHANGED <<prompts, allPrompts, nextId, userFile, favorites,
                       showFavoritesOnly, showRecentOnly, lastIssued,
                       saveFailures>>

\* the contexts analyzeCurrentContext hands to the context-aware commands
EditorContexts ==
    [type : {"error", "api"}, language : {Undef, "dotnet"}]

NoUsage == <<>>

\* prompt-library.contextAwarePrompts with a prompt picked from the list
ExecuteContextPrompt ==
    \E context \in EditorContexts :
    \E i \in DOMAIN getRelevantPrompts(getRootEntries(Lib, Prefs), context,
                                       NoUsage) :
    \E prompt \in {getRelevantPrompts(getRootEntries(Lib, Prefs), context,
                                      NoUsage)[i]} :
    \E inputs \in InputsFor(Len(extractVariables(
                      substituteVariables(prompt.prompt,
                          createContextSubstitutions(context))))) :
    \E clipboardOk \in BOOLEAN :
    \E r \in {executeContextPrompt(prompt, context, inputs, clipboardOk)} :
        /\ last' = [NoCall EXCEPT
                      !.op = "contextPrompt", !.arg = prompt.id,
                      !.entryType = prompt.type, !.ret = r.text,
                      !.cancelled = r.cancelled, !.messages = r.messages]
        /\ UNCHANGED <<suspended, analytics>>
        /\ UNCHANGED <<prompts, allPrompts, nextId, userFile, prefs,
                       lastIssued, saveFailures>>

NextUse ==
    \/ CmdToggleFavorite
    \/ CmdShowFavoritesOnly
    \/ CmdShowRecentPrompts
    \/ CmdShowAllPrompts
    \/ CmdExportPrompts
    \/ CmdUsePrompt
    \/ ExecuteContextPrompt

SpecUse == InitUse /\ [][NextUse]_vars

(***************************************************************************)
(* Construction of the store from whatever the two files hold              *)
(*                                                                         *)
(* A file on disk is a record: whether it exists, whether JSON.parse       *)
(* accepts it, whether the parsed object has a `categories` property, and  *)
(* the categories; a category says whether it has a `groups` array and a   *)
(* group whether it has a `prompts` array.                                 *)
(***************************************************************************)
RawGroup(g) ==
    [id |-> g.id, label |-> g.label, hasPrompts |-> TRUE, prompts |-> g.prompts]

RawCategory(c) ==
    [id |-> c.id, label |-> c.label, type |-> c.type, hasGroups |-> TRUE,
     groups |-> [g \in 1..Len(c.groups) |-> RawGroup(c.groups[g])]]

RawFile(categories) ==
    [exists |-> TRUE, parses |-> TRUE, hasCategories |-> TRUE,
     categories |-> [c \in 1..Len(categories) |-> RawCategory(categories[c])]]

MissingFile ==
    [exists |-> FALSE, parses |-> FALSE, hasCategories |-> FALSE,
     categories |-> <<>>]

\* the files tried for a base content: absent, broken at each level, whole
FileContents(base) ==
    LET whole == RawFile(base) IN
    { MissingFile,
      [MissingFile EXCEPT !.exists = TRUE],
      [MissingFile EXCEPT !.exists = TRUE, !.parses = TRUE],
      RawFile(<<>>),
      whole,
      RawFile(base \o base),
      [whole EXCEPT !.categories[1].hasGroups = FALSE,
                    !.categories[1].groups = <<>>],
      [whole EXCEPT !.categories[1].groups = <<>>],
      [whole EXCEPT !.categories[1].groups[1].hasPrompts = FALSE,
                    !.categories[1].groups[1].prompts = <<>>],
      [whole EXCEPT !.categories[1].groups[1].prompts = <<>>],
      [whole EXCEPT !.categories =
          Append(@, [id |-> "extra", label |-> "Extra", type |-> "user",
                     hasGroups |-> FALSE, groups |-> <<>>])] }

\* cat.groups.map / group.prompts.map can be evaluated for every category
hasEveryArray(rawCategories) ==
    \A c \in 1..Len(rawCategories) :
        /\ rawCategories[c].hasGroups
        /\ \A g \in 1..Len(rawCategories[c].groups) :
               rawCategories[c].groups[g].hasPrompts

\* the PromptCategory values of categories that have every array
plainCategories(rawCategories) ==
    [c \in 1..Len(rawCategories) |->
        [id |-> rawCategories[c].id, label |-> rawCategories[c].label,
         type |-> rawCategories[c].type,
         groups |-> [g \in 1..Len(rawCategories[c].groups) |->
            [id |-> rawCategories[c].groups[g].id,
             label |-> rawCategories[c].groups[g].label,
             prompts |-> rawCategories[c].groups[g].prompts]]]]

\* first try block of loadPrompts: the categories pushed for the system file
\* (getDefaultPrompts has no system entry, so a missing file gives none)
systemCategoriesRead(file) ==
    IF file.exists /\ file.parses /\ file.hasCategories
    THEN file.categories ELSE <<>>

\* second try block: the categories pushed for the user file
userCategoriesRead(file) ==
    IF file.exists /\ file.parses /\ file.hasCategories
    THEN file.categories ELSE RawFile(InitialUserFile).categories

\* what loadPrompts logs
loadLog(systemFile, userFileOnDisk) ==
    (IF ~systemFile.exists THEN <<"warn">>
     ELSE IF ~(systemFile.parses /\ systemFile.hasCategories) THEN <<"error">>
     ELSE <<>>)
    \o
    (IF userFileOnDisk.exists
        /\ ~(userFileOnDisk.parses /\ userFileOnDisk.hasCategories)
     THEN <<"error">> ELSE <<>>)

\* the constructor's loadPrompts over the two files: convertJsonToEntries
\* runs outside the try blocks, so an array it cannot map ends the call
loadPromptsFrom(systemFile, userFileOnDisk) ==
    LET allCategories == systemCategoriesRead(systemFile)
                         \o userCategoriesRead(userFileOnDisk)
        logged == loadLog(systemFile, userFileOnDisk)
    IN  IF ~hasEveryArray(allCategories)
        THEN [threw |-> TRUE, logged |-> logged,
              prompts |-> <<>>, allPrompts |-> <<>>, nextId |-> 0]
        ELSE LET categories == plainCategories(allCategories)
                 entries == convertJsonToEntries(categories)
             IN  [threw |-> FALSE, logged |-> logged,
                  prompts |-> entries,
                  allPrompts |-> extractAllPrompts(categories),
                  nextId |-> getMaxId(entries) + 1]

\* the user categories that can be read back from disk after the call
userFileAfterLoad(userFileOnDisk) ==
    IF ~userFileOnDisk.exists THEN InitialUserFile
    ELSE IF userFileOnDisk.parses /\ userFileOnDisk.hasCategories
            /\ hasEveryArray(userFileOnDisk.categories)
    THEN plainCategories(userFileOnDisk.categories)
    ELSE <<>>

\* the fields of a PromptLibrary before its constructor has run
InitLoad ==
    /\ prompts = <<>>
    /\ allPrompts = <<>>
    /\ nextId = 0
    /\ userFile = <<>>
    /\ favorites = <<>>
    /\ recentPrompts = <<>>
    /\ showFavoritesOnly = FALSE
    /\ showRecentOnly = FALSE
    /\ last = NoCall
    /\ lastIssued = 0
    /\ saveFailures = 0
    /\ suspended = <<>>
    /\ analytics = NoAnalytics

\* new PromptLibrary(context) with the two files as they are found on disk
Construct ==
    /\ last.op = "none"
    /\ \E systemFile \in FileContents(SystemFile) :
       \E userFileOnDisk \in FileContents(EarlierUserFile) :
       \E r \in {loadPromptsFrom(systemFile, userFileOnDisk)} :
           /\ prompts' = r.prompts
           /\ allPrompts' = r.allPrompts
           /\ nextId' = r.nextId
           /\ userFile' = userFileAfterLoad(userFileOnDisk)
           /\ last' = [NoCall EXCEPT !.op = "construct", !.threw = r.threw,
                                     !.messages = r.logged,
                                     !.files = <<systemFile, userFileOnDisk>>]
    /\ UNCHANGED <<suspended, analytics>>
    /\ UNCHANGED <<prefs, lastIssued, saveFailures>>

NextLoad == Construct

SpecLoad == InitLoad /\ [][NextLoad]_vars

(***************************************************************************)
(* addPrompt with the evaluation service behind it                         *)
(***************************************************************************)
\* what the chat-completions request does: it answers with content, it
\* fails (rejects, or answers without content), or it never settles
ApiBehaviours == {"answers", "fails", "silent"}

\* PromptEvaluationService.evaluatePrompt: what the awaited promise gives
evaluatePrompt(prompt, enabled, api) ==
    IF ~enabled \/ trim(prompt) = <<>> THEN "undefined"
    ELSE CASE api = "answers" -> "parsed"
           [] api = "fails" -> "default50"
           [] api = "silent" -> "pending"

\* newPrompt.evaluation once the await in addPrompt has resumed
evaluationAttached(result) ==
    IF result = "undefined" THEN "fallback65" ELSE result

\* addPrompt as far as it gets: with a pending evaluation the callback stays
\* at the await, after generateId and before the entry is attached
addPromptAwaiting(lib, label, promptIn, tags, parentId, enabled, api, saveOk) ==
    LET result == evaluatePrompt(cleanPromptText(promptIn), enabled, api) IN
    IF result = "pending"
    THEN [lib |-> [lib EXCEPT !.nextId = @ + 1], ret |-> Undef,
          threw |-> FALSE, evaluated |-> TRUE, wrote |-> FALSE,
          returned |-> FALSE, evaluation |-> NoEval]
    ELSE LET r == addPrompt(lib, label, promptIn, tags, parentId,
                            IF result = "undefined" THEN "undefined"
                                                    ELSE "score", saveOk)
         IN  [lib |-> r.lib, ret |-> r.ret, threw |-> r.threw,
              evaluated |-> r.evaluated, wrote |-> r.wrote,
              returned |-> TRUE, evaluation |-> evaluationAttached(result)]

AddPromptAwaiting ==
    \E label \in Labels, body \in Bodies, tags \in TagLists,
       parentId \in AllIds(prompts) \cup {Undef},
       enabled \in BOOLEAN, api \in ApiBehaviours, saveOk \in SaveOutcomes :
        /\ nextId <= MaxId
        /\ \E r \in {addPromptAwaiting(Lib, label, body, tags, parentId,
                                       enabled, api, saveOk)} :
               /\ SetLib(r.lib)
               /\ last' = [NoCall EXCEPT
                             !.op = "add", !.ret = r.ret, !.threw = r.threw,
                             !.label = label, !.body = body, !.tags = tags,
                             !.parentId = parentId,
                             !.evaluated = r.evaluated,
                             !.wrote = r.wrote, !.storeCalled = TRUE,
                             !.returned = r.returned,
                             !.evaluation = r.evaluation,
                             !.api = IF enabled THEN api ELSE "disabled"]
               /\ lastIssued' = IF r.ret = Undef THEN lastIssued
                                                 ELSE parseInt(r.ret)
               /\ CountFailure(r)
        /\ UNCHANGED <<suspended, analytics>>
        /\ UNCHANGED prefs

NextEval == AddPromptAwaiting \/ DeletePrompt

SpecEval == Init /\ [][NextEval]_vars

(***************************************************************************)
(* extractVariables and substituteVariables over texts and value maps      *)
(***************************************************************************)
MaxTextLen == 3       \* tokens in a text
MaxValues == 2        \* entries in a map of values

TextTokens == {"w", "{a}", "{{a}}", "{{A}}", "{{b}}"}

RECURSIVE SeqsUpTo(_, _)
SeqsUpTo(S, n) ==
    IF n = 0 THEN {<<>>}
    ELSE LET shorter == SeqsUpTo(S, n - 1) IN
         shorter \cup {Append(q, x) : q \in shorter, x \in S}

Texts == SeqsUpTo(TextTokens, MaxTextLen)

VariableNames == {"a", "A", "b"}
VariableValues == {<<"v">>, <<"$&">>, <<"{{b}}", "v">>}

\* objects with distinct keys, as their entries
ValueMaps ==
    {m \in SeqsUpTo(VariableNames \X VariableValues, MaxValues) :
        \A i, j \in 1..Len(m) : i # j => m[i][1] # m[j][1]}

InitVars ==
    /\ prompts = <<>>
    /\ allPrompts = <<>>
    /\ nextId = 0
    /\ userFile = <<>>
    /\ favorites = <<>>
    /\ recentPrompts = <<>>
    /\ showFavoritesOnly = FALSE
    /\ showRecentOnly = FALSE
    /\ \E text \in Texts, values \in ValueMaps :
           last = [NoCall EXCEPT !.body = text, !.values = values]
    /\ lastIssued = 0
    /\ saveFailures = 0
    /\ suspended = <<>>
    /\ analytics = NoAnalytics

ExtractVariables ==
    /\ last.op = "none"
    /\ last' = [last EXCEPT !.op = "extractVariables",
                            !.ret = extractVariables(last.body)]
    /\ UNCHANGED <<suspended, analytics>>
    /\ UNCHANGED <<prompts, allPrompts, nextId, userFile, prefs, lastIssued,
                   saveFailures>>

SubstituteVariables ==
    /\ last.op = "none"
    /\ last' = [last EXCEPT !.op = "substituteVariables",
                            !.ret = substituteVariables(last.body, last.values)]
    /\ UNCHANGED <<suspended, analytics>>
    /\ UNCHANGED <<prompts, allPrompts, nextId, userFile, prefs, lastIssued,
                   saveFailures>>

NextVars == ExtractVariables \/ SubstituteVariables

SpecVars == InitVars /\ [][NextVars]_vars

(***************************************************************************)
(* The tree view under a search query                                      *)
(*                                                                         *)
(* Labels, tags and the tokens of a body are strings of characters; the    *)
(* body of a prompt is its tokens in a row.                                *)
(***************************************************************************)
UpperCase == "ABCDEFGHIJKLMNOPQRSTUVWXYZ"
LowerCase == "abcdefghijklmnopqrstuvwxyz"

\* String.prototype.toLowerCase, character by character
RECURSIVE lowerString(_)
lowerString(str) ==
    IF Len(str) = 0 THEN ""
    ELSE LET c == SubSeq(str, 1, 1)
             at == {i \in 1..Len(UpperCase) : SubSeq(UpperCase, i, i) = c}
         IN  (IF at = {} THEN c
              ELSE LET i == CHOOSE i \in at : TRUE IN SubSeq(LowerCase, i, i))
             \o lowerString(SubSeq(str, 2, Len(str)))

\* String.prototype.includes
stringIncludes(str, part) ==
    \E i \in 0..(Len(str) - Len(part)) : SubSeq(str, i + 1, i + Len(part)) = part

\* the string of a body
RECURSIVE bodyString(_)
bodyString(tokens) ==
    IF tokens = <<>> THEN "" ELSE Head(tokens) \o bodyString(Tail(tokens))

\* `matches` of filterBySearch for one item (sections, categories and
\* groups have no prompt and no tags)
searchMatches(item, lowerQuery) ==
    \/ stringIncludes(lowerString(item.label), lowerQuery)
    \/ /\ item.type = "prompt"
       /\ stringIncludes(lowerString(bodyString(item.prompt)), lowerQuery)
    \/ \E t \in 1..Len(item.tags) :
           stringIncludes(lowerString(item.tags[t]), lowerQuery)

\* filterBySearch that keeps every item that has children
RECURSIVE filterBySearchUnpruned(_, _)
filterBySearchUnpruned(items, query) ==
    IF items = <<>> THEN <<>>
    ELSE LET item == Head(items) IN
         (IF searchMatches(item, lowerString(query)) \/ item.children # <<>>
          THEN <<item>> ELSE <<>>)
         \o filterBySearchUnpruned(Tail(items), query)

RECURSIVE filterBySearch(_, _)
filterBySearch(items, query) ==
    IF items = <<>> THEN <<>>
    ELSE LET item == Head(items)
             childMatches == filterBySearch(item.children, query)
         IN  (IF searchMatches(item, lowerString(query)) THEN <<item>>
              ELSE IF childMatches # <<>>
                   THEN <<[item EXCEPT !.children = childMatches]>>
                   ELSE <<>>)
             \o filterBySearch(Tail(items), query)

\* getChildren on the items of one level of the tree
getChildren(items, searchQuery) ==
    IF searchQuery # "" THEN filterBySearch(items, searchQuery) ELSE items

\* the tree the view shows: getChildren asked for the root and then for
\* every item it returned
RECURSIVE shownTree(_, _)
shownTree(items, searchQuery) ==
    LET shown == getChildren(items, searchQuery) IN
    [i \in 1..Len(shown) |->
        [shown[i] EXCEPT !.children = shownTree(@, searchQuery)]]

\* a system file with two categories, groups next to each other and
\* prompts next to each other
SearchSystemFile ==
    << [id |-> "dotnet", label |-> ".NET", type |-> "system",
        groups |-> << [id |-> "1", label |-> "Web API",
                       prompts |-> << [id |-> "2", label |-> "Endpoint",
                                       prompt |-> <<"implement">>,
                                       tags |-> <<"dotnet">>],
                                      [id |-> "5", label |-> "Debug",
                                       prompt |-> <<"fix", Blank, "it">>,
                                       tags |-> <<"core", "Quick">>] >>],
                      [id |-> "6", label |-> "Tests",
                       prompts |-> << [id |-> "7", label |-> "b",
                                       prompt |-> <<"w">>,
                                       tags |-> <<>>] >>] >> ],
       [id |-> "web", label |-> "imp", type |-> "system",
        groups |-> << [id |-> "8", label |-> "Pages",
                       prompts |-> << [id |-> "9", label |-> "a",
                                       prompt |-> <<"x">>,
                                       tags |-> <<"core">>] >>] >> ] >>

SearchQueries == {"", "dot", "DoT", "quick", "UICK", "core", "net", "fix i", "zz"}

InitSearch ==
    /\ userFile \in {InitialUserFile, EarlierUserFile}
    /\ LET lib == loadPromptsFrom(RawFile(SearchSystemFile), RawFile(userFile))
       IN  /\ prompts = lib.prompts
           /\ allPrompts = lib.allPrompts
           /\ nextId = lib.nextId
    /\ favorites = <<>>
    /\ recentPrompts \in {<<>>, <<"5">>}
    /\ showFavoritesOnly = FALSE
    /\ showRecentOnly = FALSE
    /\ last = NoCall
    /\ lastIssued = 0
    /\ saveFailures = 0
    /\ suspended = <<>>
    /\ analytics = NoAnalytics

\* prompt-library.search: the query typed is set and the view refreshed;
\* a dismissed input box leaves the query as it is
CmdSearch ==
    \E query \in SearchQueries :
        /\ last' = [NoCall EXCEPT
                      !.op = "cmdSearch", !.arg = query,
                      !.ret = shownTree(getRootEntries(Lib, Prefs), query)]
        /\ UNCHANGED <<suspended, analytics>>
        /\ UNCHANGED <<prompts, allPrompts, nextId, userFile, prefs,
                       lastIssued, saveFailures>>

NextSearch ==
    \/ CmdSearch
    \/ CmdToggleFavorite
    \/ CmdShowFavoritesOnly
    \/ CmdShowRecentPrompts
    \/ CmdShowAllPrompts

SpecSearch == InitSearch /\ [][NextSearch]_vars

(***************************************************************************)
(* getRelevantPrompts over the tree, for an editor context                 *)
(***************************************************************************)
\* the analytics read by the scorer: nothing recorded, or uses and a last
\* use recorded for some prompts
UsageRecords ==
    { <<>>,
      <<[id |-> "5", uses |-> 1, lastUsed |-> "day"]>>,
      <<[id |-> "2", uses |-> 30, lastUsed |-> "week"],
        [id |-> "9", uses |-> 2, lastUsed |-> "older"]>> }

InitRelevance ==
    /\ userFile \in {InitialUserFile, EarlierUserFile}
    /\ LET lib == loadPromptsFrom(RawFile(SearchSystemFile), RawFile(userFile))
       IN  /\ prompts = lib.prompts
           /\ allPrompts = lib.allPrompts
           /\ nextId = lib.nextId
    /\ favorites = <<>>
    /\ recentPrompts \in {<<>>, <<"5">>, <<"9", "7", "5", "3", "2">>}
    /\ showFavoritesOnly = FALSE
    /\ showRecentOnly = FALSE
    /\ last = NoCall
    /\ lastIssued = 0
    /\ saveFailures = 0
    /\ suspended = <<>>
    /\ analytics = NoAnalytics

\* the prompts offered for the context detected in the editor
GetRelevantPrompts ==
    \E context \in EditorContexts :
    \E usage \in UsageRecords :
        /\ last' = [NoCall EXCEPT
                      !.op = "getRelevantPrompts", !.arg = context,
                      !.values = usage,
                      !.ret = getRelevantPrompts(getRootEntries(Lib, Prefs),
                                                 context, usage)]
        /\ UNCHANGED <<suspended, analytics>>
        /\ UNCHANGED <<prompts, allPrompts, nextId, userFile, prefs,
                       lastIssued, saveFailures>>

NextRelevance ==
    \/ GetRelevantPrompts
    \/ CmdToggleFavorite
    \/ CmdShowFavoritesOnly
    \/ CmdShowRecentPrompts
    \/ CmdShowAllPrompts

SpecRelevance == InitRelevance /\ [][NextRelevance]_vars

(***************************************************************************)
(* addToRecent called again and again, starting from the empty list        *)
(***************************************************************************)
MaxCalls == 12        \* calls in a row

\* the id passed: one not in the list (the smallest number the list does not
\* hold), or one that is in it (the second most recent, or the least recent)
RecentChoices ==
    LET fresh == {n \in 1..(RecentLimit + 1) :
                     /\ ~Includes(recentPrompts, numToString(n))
                     /\ \A m \in 1..(n - 1) :
                           Includes(recentPrompts, numToString(m))}
    IN  {numToString(n) : n \in fresh}
        \cup (IF Len(recentPrompts) >= 2
              THEN {recentPrompts[2], recentPrompts[Len(recentPrompts)]}
              ELSE {})

AddToRecent ==
    \E promptId \in RecentChoices :
        /\ last.calls < MaxCalls
        /\ recentPrompts' = addToRecent(recentPrompts, promptId)
        /\ last' = [NoCall EXCEPT !.op = "addToRecent", !.arg = promptId,
                                  !.calls = last.calls + 1]
        /\ UNCHANGED <<suspended, analytics>>
        /\ UNCHANGED <<prompts, allPrompts, nextId, userFile, favorites,
                       showFavoritesOnly, showRecentOnly, lastIssued,
                       saveFailures>>

NextRecent == AddToRecent

SpecRecent == Init /\ [][NextRecent]_vars

(***************************************************************************)
(* Properties of the store                                                 *)
(***************************************************************************)
RECURSIVE NodeFacts(_)
NodeFacts(entries) ==
    IF entries = <<>> THEN {}
    ELSE LET e == Head(entries) IN
         {[id |-> e.id, label |-> e.label, type |-> e.type,
           prompt |-> e.prompt, tags |-> e.tags]}
         \cup NodeFacts(e.children) \cup NodeFacts(Tail(entries))

SystemFileFacts ==
    UNION {
        {[id |-> SystemFile[c].id, label |-> SystemFile[c].label,
          type |-> "category", prompt |-> <<>>, tags |-> <<>>]}
        \cup UNION {
            {[id |-> SystemFile[c].groups[g].id,
              label |-> SystemFile[c].groups[g].label,
              type |-> "group", prompt |-> <<>>, tags |-> <<>>]}
            \cup {[id |-> SystemFile[c].groups[g].prompts[p].id,
                   label |-> SystemFile[c].groups[g].prompts[p].label,
                   type |-> "prompt",
                   prompt |-> SystemFile[c].groups[g].prompts[p].prompt,
                   tags |-> SystemFile[c].groups[g].prompts[p].tags]
                  : p \in 1..Len(SystemFile[c].groups[g].prompts)}
            : g \in 1..Len(SystemFile[c].groups)}
        : c \in 1..Len(SystemFile)}

SystemFileIds == {f.id : f \in SystemFileFacts}

UserPart(entries) == SelectSeq(entries, LAMBDA e : e.categoryType = "user")

Returned(call, op) == call.op = op /\ ~call.threw

\* C1: as long as every save has succeeded, every category, group and prompt
\* of the system file is in the in-memory forest with its id, label, body
\* and tags, also after update or delete was called with a system id.
C1_SystemNodesIntact ==
    saveFailures = 0 => SystemFileFacts \subseteq NodeFacts(prompts)

C1_Witness ==
    /\ saveFailures = 0
    /\ Returned(last, "delete")
    /\ last.arg \in SystemFileIds

\* C2: after add(label, body, tags, parentId) returns an id, findById(id)
\* is a prompt with that label, those tags and the cleaned body, whatever
\* parentId was.
C2_AddedPromptFound ==
    Returned(last, "add") =>
        LET found == findById(prompts, last.ret) IN
        /\ found.type = "prompt"
        /\ found.label = last.label
        /\ found.tags = last.tags
        /\ found.prompt = cleanPromptText(last.body)

C4_NewIdAboveForest ==
    [][Returned(last', "add") =>
        /\ \A i \in AllIds(prompts) :
              parseInt(i) # NaN => parseInt(last'.ret) > parseInt(i)
        /\ last'.ret \notin AllIds(prompts)]_vars

C4_Witness ==
    /\ Returned(last, "add")
    /\ findById(prompts, last.ret).type = "prompt"
    /\ \E i \in AllIds(prompts) : parseInt(i) # NaN /\ i # last.ret

\* ids of the nodes that neither have this id nor lie beneath a node with it
RECURSIVE IdsOutside(_, _)
IdsOutside(entries, id) ==
    IF entries = <<>> THEN {}
    ELSE (IF Head(entries).id = id THEN {}
          ELSE {Head(entries).id} \cup IdsOutside(Head(entries).children, id))
         \cup IdsOutside(Tail(entries), id)

\* C5 as stated: after delete(id) of any id present, findById(id) is null
\* and every other id that was present is still present.
C5_DeleteRemovesOnlyThatId ==
    [][(Returned(last', "delete") /\ last'.arg \in AllIds(prompts)) =>
        /\ findById(prompts', last'.arg) = NullEntry
        /\ \A i \in AllIds(prompts) \ {last'.arg} : i \in AllIds(prompts')]_vars

\* C5 amended: after delete(id) of an id present returns, findById(id) is
\* null unless id is an id of the system file (the reload restores it);
\* every node of the system file, and every node of a user category that
\* neither has the id nor lies beneath a node with it, is still present.
C5_DeleteRemovesUserSubtree ==
    [][(Returned(last', "delete") /\ last'.arg \in AllIds(prompts)) =>
        /\ (findById(prompts', last'.arg) = NullEntry
                <=> last'.arg \notin SystemFileIds)
        /\ \A i \in SystemFileIds \cup IdsOutside(UserPart(prompts), last'.arg) :
              i \in AllIds(prompts')]_vars

C5_Witness ==
    /\ Returned(last, "delete")
    /\ last.arg = "3"
    /\ "5" \in PromptIds(UserPart(prompts))

\* C6: when the write of the user file fails, the in-memory forest is as
\* it was before the operation.
C6_FailedSaveLeavesMemory ==
    [][last'.threw => prompts' = prompts]_vars

RECURSIVE AllOfType(_, _)
AllOfType(entries, categoryType) ==
    \A i \in 1..Len(entries) :
        /\ entries[i].categoryType = categoryType
        /\ AllOfType(entries[i].children, categoryType)

\* C7: every group and prompt has the categoryType of the category that
\* contains it.
C7_CategoryTypeOfOwner ==
    \A c \in 1..Len(prompts) :
        AllOfType(prompts[c].children, prompts[c].categoryType)

C7_Witness ==
    /\ last.op = "add"
    /\ last.threw
    /\ last.parentId = "dotnet"
    /\ \E c \in 1..Len(prompts) :
          /\ prompts[c].categoryType = "system"
          /\ Cardinality(PromptIds(prompts[c].children)) > 1

RECURSIVE Shape(_)
Shape(entries) ==
    [i \in 1..Len(entries) |->
        [id |-> entries[i].id, label |-> entries[i].label,
         tags |-> entries[i].tags, children |-> Shape(entries[i].children)]]

\* C8: saving the user subtree and loading it back gives user categories
\* with the same ids, labels, tags and nesting, in the same order.
C8_SaveLoadRoundTrip ==
    Shape(UserPart(loadPrompts(saveUserPromptsToJson(Lib)).prompts))
        = Shape(UserPart(prompts))

C8_Witness ==
    /\ last.op = "add"
    /\ last.threw
    /\ last.parentId = "user"
    /\ Shape(convertJsonToEntries(userFile)) # Shape(UserPart(prompts))

(***************************************************************************)
(* Properties of the commands                                              *)
(***************************************************************************)
SystemFilePromptIds == {f.id : f \in {g \in SystemFileFacts : g.type = "prompt"}}

PromptFacts(entries) == {f \in NodeFacts(entries) : f.type = "prompt"}

\* C9: the edit and delete commands, invoked on a system prompt, show an
\* error message and abort: the store is not called, the evaluator is not
\* invoked and the user file is not written.
C9_SystemPromptCommandsRejected ==
    (/\ last.op \in {"cmdDelete", "cmdEdit"}
     /\ last.entryType = "prompt"
     /\ last.arg \in SystemFilePromptIds)
    => /\ \E i \in 1..Len(last.messages) : last.messages[i].kind = "error"
       /\ ~last.storeCalled
       /\ ~last.evaluated
       /\ ~last.wrote

\* C10: import, with any strategy, leaves the prompts of the user subtree
\* as they were: none is changed, removed or added.
C10_ImportLeavesUserPrompts ==
    [][last'.op = "import" =>
        PromptFacts(UserPart(prompts')) = PromptFacts(UserPart(prompts))]_vars

(***************************************************************************)
(* Properties of export                                                    *)
(***************************************************************************)
\* C11: the exported prompt list holds no prompt of a user category,
\* whatever the favorites and recent lists contain.
C11_ExportOnlySystemPrompts ==
    (last.op = "export" /\ last.wrote) =>
        \A i \in 1..Len(last.exported) :
            last.exported[i].id \notin PromptIds(UserPart(prompts))

(***************************************************************************)
(* Properties of construction                                              *)
(***************************************************************************)
\* C12: construction of the store completes whatever the two files hold:
\* missing, unparseable, or parsed but without the categories / groups /
\* prompts arrays.
C12_LoadNeverFails ==
    last.op = "construct" => ~last.threw

(***************************************************************************)
(* Properties of the evaluation                                            *)
(***************************************************************************)
FallbackEvaluations == {"default50", "fallback60", "fallback65"}

\* C13: whatever the evaluator does (it fails, gives nothing, or never
\* answers), add completes: unless the write of the file fails it returns
\* the id, with a fallback score in place of the evaluation that is missing.
C13_AddCompletesWithoutEvaluator ==
    (last.op = "add" /\ ~last.threw) =>
        /\ last.returned
        /\ last.ret # Undef
        /\ (last.api # "answers" \/ cleanPromptText(last.body) = <<>>)
              => last.evaluation \in FallbackEvaluations

(***************************************************************************)
(* Properties of the variables                                             *)
(***************************************************************************)
\* position of the first occurrence of a placeholder with this name
FirstOccurrence(text, name) ==
    CHOOSE i \in 1..Len(text) :
        /\ text[i] \in Placeholders /\ placeholderName(text[i]) = name
        /\ \A j \in 1..(i - 1) :
              ~(text[j] \in Placeholders /\ placeholderName(text[j]) = name)

\* C18: extractVariables returns the names of the {{name}} placeholders of
\* the text, each exactly once, in order of first occurrence.
C18_ExtractVariablesDedupInOrder ==
    last.op = "extractVariables" =>
        LET text == last.body
            names == last.ret
        IN  /\ {names[i] : i \in 1..Len(names)}
                 = {placeholderName(t) :
                      t \in {text[i] : i \in 1..Len(text)} \cap Placeholders}
            /\ \A i, j \in 1..Len(names) : i # j => names[i] # names[j]
            /\ \A i, j \in 1..Len(names) :
                  i < j => FirstOccurrence(text, names[i])
                             < FirstOccurrence(text, names[j])

C18_Witness ==
    /\ last.op = "extractVariables"
    /\ last.body = <<"{{b}}", "{{a}}", "{{b}}">>
    /\ last.ret = <<"b", "a">>

\* the value the map gives for a placeholder, if any entry names it in
\* some letter case
MappedValue(values, t) ==
    LET hits == SelectSeq(values, LAMBDA e :
                    lowerName(e[1]) = lowerName(placeholderName(t)))
    IN  IF hits = <<>> THEN <<t>> ELSE Head(hits)[2]

\* every placeholder replaced by its value, everything else kept
RECURSIVE EveryOccurrenceReplaced(_, _)
EveryOccurrenceReplaced(text, values) ==
    IF text = <<>> THEN <<>>
    ELSE (IF Head(text) \in Placeholders
          THEN MappedValue(values, Head(text)) ELSE <<Head(text)>>)
         \o EveryOccurrenceReplaced(Tail(text), values)

\* C19: substitute replaces every occurrence of {{name}}, in any letter
\* case of the name, by the value and leaves the rest of the text unchanged.
C19_SubstituteReplacesByValue ==
    last.op = "substituteVariables" =>
        last.ret = EveryOccurrenceReplaced(last.body, last.values)

(***************************************************************************)
(* Properties of using a prompt                                            *)
(***************************************************************************)
\* C14: when a variable input box is dismissed during the use-prompt
\* command, the recent list and the favorites are as they were before.
C14_CancelKeepsPreferences ==
    [][(last'.op = "cmdUse" /\ last'.cancelled) =>
            /\ recentPrompts' = recentPrompts
            /\ favorites' = favorites]_vars

C14_Witness ==
    /\ last.op = "cmdUse"
    /\ last.cancelled
    /\ last.arg = "3"
    /\ recentPrompts = <<"2">>

\* C15: when variable input is cancelled during a use-prompt or
\* context-prompt action, the only message shown is a non-error
\* `cancelled` one.
C15_CancelShowsNoError ==
    (last.op \in {"cmdUse", "contextPrompt"} /\ last.cancelled) =>
        /\ last.messages # <<>>
        /\ \A i \in 1..Len(last.messages) : last.messages[i].kind # "error"

(***************************************************************************)
(* Properties of the recent list                                           *)
(***************************************************************************)
\* C16: after any sequence of addToRecent calls from the empty list, the
\* list has at most 10 ids and no id twice, and is most-recent-first: the
\* id of the latest call is first, the ids behind it are those of the list
\* before, without that id, in their order, and on overflow only the last
\* of them (the least recently used) is dropped.
C16_RecentBoundedDedupOrdered ==
    [][last'.op = "addToRecent" =>
        LET before == SelectSeq(recentPrompts, LAMBDA x : x # last'.arg)
            after == recentPrompts'
        IN  /\ Len(after) <= 10
            /\ \A i, j \in 1..Len(after) : i # j => after[i] # after[j]
            /\ Head(after) = last'.arg
            /\ Len(Tail(after)) = (IF Len(before) > 9 THEN 9 ELSE Len(before))
            /\ Tail(after) = SubSeq(before, 1, Len(Tail(after)))]_vars

C16_Witness ==
    /\ last.op = "addToRecent"
    /\ last.arg = "11"
    /\ Len(recentPrompts) = 10
    /\ ~Includes(recentPrompts, "2")
    /\ recentPrompts[2] = "1"

(***************************************************************************)
(* Properties of the search filter                                         *)
(***************************************************************************)
\* the ids from a root item down to each item of a forest
RECURSIVE Paths(_)
Paths(entries) ==
    IF entries = <<>> THEN {}
    ELSE {<<Head(entries).id>>}
         \cup {<<Head(entries).id>> \o p : p \in Paths(Head(entries).children)}
         \cup Paths(Tail(entries))

\* the prompts of a forest that have a tag in which the query occurs
TagHolders(entries, query) ==
    {e.id : e \in {n \in AllNodes(entries) :
                      /\ n.type = "prompt"
                      /\ \E t \in 1..Len(n.tags) :
                            stringIncludes(lowerString(n.tags[t]),
                                           lowerString(query))}}

\* the query occurs in a tag of exactly one prompt and in no label or body
OccursOnlyInOneTag(entries, query) ==
    /\ query # ""
    /\ Cardinality(TagHolders(entries, query)) = 1
    /\ \A n \in AllNodes(entries) :
          /\ ~stringIncludes(lowerString(n.label), lowerString(query))
          /\ ~stringIncludes(lowerString(bodyString(n.prompt)),
                             lowerString(query))

\* C17: for a query that occurs only in a tag of one prompt, in any letter
\* case, the tree shown holds that prompt wherever the unfiltered tree holds
\* it, every section, category and group above it, and nothing else; the
\* items shown are items of the unfiltered tree.
C17_SearchKeepsAncestorsOnly ==
    LET root == getRootEntries(Lib, Prefs) IN
    (last.op = "cmdSearch" /\ OccursOnlyInOneTag(root, last.arg)) =>
        LET target == CHOOSE id \in TagHolders(root, last.arg) : TRUE
            targetPaths == {p \in Paths(root) : p[Len(p)] = target}
        IN  /\ Paths(last.ret) =
                  UNION {{SubSeq(p, 1, k) : k \in 1..Len(p)} : p \in targetPaths}
            /\ NodeFacts(last.ret) \subseteq NodeFacts(root)

C17_Witness ==
    /\ last.op = "cmdSearch"
    /\ last.arg = "UICK"
    /\ OccursOnlyInOneTag(getRootEntries(Lib, Prefs), last.arg)
    /\ recentPrompts = <<"5">>
    /\ favorites = <<"2">>
    /\ Paths(last.ret) = {<<"recent">>, <<"recent", "5">>,
                          <<"system-section">>, <<"system-section", "dotnet">>,
                          <<"system-section", "dotnet", "1">>,
                          <<"system-section", "dotnet", "1", "5">>}

(***************************************************************************)
(* Properties of the prompts offered for a context                         *)
(***************************************************************************)
\* C20: getRelevantPrompts returns at most 10 prompts, each an entry of the
\* tree whose relevance score for the context is greater than 0; an entry
\* whose score is 0 is not returned.
C20_RelevantPromptsScorePositive ==
    last.op = "getRelevantPrompts" =>
        LET candidates == extractAllPromptEntries(getRootEntries(Lib, Prefs))
            score(e) == calculateRelevanceScore(e, last.arg, last.values)
        IN  /\ Len(last.ret) <= 10
            /\ \A i \in 1..Len(last.ret) :
                  /\ Includes(candidates, last.ret[i])
                  /\ score(last.ret[i]) > 0
            /\ \A k \in 1..Len(candidates) :
                  score(candidates[k]) = 0 => ~Includes(last.ret, candidates[k])

C20_Witness ==
    /\ last.op = "getRelevantPrompts"
    /\ Len(extractAllPromptEntries(getRootEntries(Lib, Prefs))) > 10
    /\ Len(last.ret) = 10
    /\ last.values # <<>>

\* C29: the list getRelevantPrompts returns holds each prompt id at most
\* once, whatever the favorites, the recent list and the view flags are.
C29_RelevantPromptsDistinct ==
    last.op = "getRelevantPrompts" =>
        \A i, j \in 1..Len(last.ret) :
            i # j => last.ret[i].id # last.ret[j].id

\* the value supplied under exactly the name of a placeholder
SuppliedValue(values, t) ==
    LET hits == SelectSeq(values, LAMBDA e : e[1] = placeholderName(t))
    IN  IF hits = <<>> THEN <<t>> ELSE Head(hits)[2]

RECURSIVE ReplacedAtOnce(_, _)
ReplacedAtOnce(text, values) ==
    IF text = <<>> THEN <<>>
    ELSE (IF Head(text) \in Placeholders
          THEN SuppliedValue(values, Head(text)) ELSE <<Head(text)>>)
         \o ReplacedAtOnce(Tail(text), values)

Reversed(seq) == [i \in 1..Len(seq) |-> seq[Len(seq) + 1 - i]]

\* C30: with a value supplied for every variable extracted from the text,
\* each placeholder of the text is replaced by exactly its value, the values
\* put in are not scanned again, and the order of the variables does not
\* matter.
C30_SubstitutionSimultaneous ==
    (/\ last.op = "substituteVariables"
     /\ \A n \in 1..Len(extractVariables(last.body)) :
           \E k \in 1..Len(last.values) :
               last.values[k][1] = extractVariables(last.body)[n])
    => /\ last.ret = ReplacedAtOnce(last.body, last.values)
       /\ last.ret = substituteVariables(last.body, Reversed(last.values))

(***************************************************************************)
(* Properties of the entries of the tree                                   *)
(***************************************************************************)
\* contextValue of the tree item of a prompt entry
contextValue(entry) ==
    IF entry.categoryType = "system" THEN "prompt-system" ELSE "prompt-user"

\* the type of the category of the forest that holds the prompt
OwnerType(entries, id) ==
    LET owners == SelectSeq(entries, LAMBDA c : id \in PromptIds(<<c>>))
    IN  Head(owners).categoryType

\* C25: every prompt entry of getRootEntries, in the main sections and in
\* Favorites and Recent, has the categoryType of the category that owns the
\* prompt, so its item is prompt-user exactly when it is a user prompt.
C25_EntryTypeOfOwner ==
    \A e \in TreeEntries :
        (e.type = "prompt" /\ e.id \in PromptIds(prompts)) =>
            /\ e.categoryType = OwnerType(prompts, e.id)
            /\ (contextValue(e) = "prompt-user"
                    <=> OwnerType(prompts, e.id) = "user")

\* C22: after an add that completed, the entry findById and getRootEntries
\* return for the new id, and the stored prompt of that id, carry the
\* evaluation attached during the add (the evaluator's, or a fallback).
C22_AddedEntryKeepsEvaluation ==
    (/\ last.op = "add"
     /\ ~last.threw
     /\ findById(prompts, last.ret) # NullEntry)
    => /\ findById(prompts, last.ret).evaluation # NoEval
       /\ \A e \in TreeEntries :
              e.id = last.ret => e.evaluation # NoEval
       /\ \A i \in 1..Len(allPrompts) :
              allPrompts[i].id = last.ret => allPrompts[i].evaluation # NoEval

(***************************************************************************)
(* The store with its preferences: add, delete, toggleFavorite, addToRecent*)
(***************************************************************************)
\* the recent list is explored up to this many ids
MaxRecents == 1

ToggleFavorite ==
    \E promptId \in PromptIds(prompts) :
        /\ \/ \E i \in 1..Len(favorites) : favorites[i] = promptId
           \/ Len(favorites) < MaxFavorites
        /\ favorites' = toggleFavorite(favorites, promptId)
        /\ last' = [NoCall EXCEPT !.op = "toggleFavorite", !.arg = promptId]
        /\ UNCHANGED <<suspended, analytics>>
        /\ UNCHANGED <<prompts, allPrompts, nextId, userFile, recentPrompts,
                       showFavoritesOnly, showRecentOnly, lastIssued,
                       saveFailures>>

AddPromptToRecent ==
    \E promptId \in PromptIds(prompts) :
        /\ \/ \E i \in 1..Len(recentPrompts) : recentPrompts[i] = promptId
           \/ Len(recentPrompts) < MaxRecents
        /\ recentPrompts' = addToRecent(recentPrompts, promptId)
        /\ last' = [NoCall EXCEPT !.op = "addToRecent", !.arg = promptId]
        /\ UNCHANGED <<suspended, analytics>>
        /\ UNCHANGED <<prompts, allPrompts, nextId, userFile, favorites,
                       showFavoritesOnly, showRecentOnly, lastIssued,
                       saveFailures>>

NextPrefs == AddPrompt \/ DeletePrompt \/ ToggleFavorite \/ AddPromptToRecent

SpecPrefs == Init /\ [][NextPrefs]_vars

\* C27: when add returns a new id, that id is neither among the favorites
\* nor in the recent list, whatever adds, toggleFavorites, addToRecents and
\* deletes came before.
C27_NewIdHasNoPreferences ==
    (last.op = "add" /\ ~last.threw) =>
        /\ \A i \in 1..Len(favorites) : favorites[i] # last.ret
        /\ \A i \in 1..Len(recentPrompts) : recentPrompts[i] # last.ret

(***************************************************************************)
(* The evaluation service: scores parsed from the model's answer           *)
(***************************************************************************)
MaxLines == 2         \* lines in an answer of the model

Digits == <<"0", "1", "2", "3", "4", "5", "6", "7", "8", "9">>

IsDigit(c) == \E d \in DOMAIN Digits : Digits[d] = c

DigitValue(c) == (CHOOSE d \in DOMAIN Digits : Digits[d] = c) - 1

\* the longest run of digits a string starts with: the group (\d+)
RECURSIVE leadingDigits(_)
leadingDigits(str) ==
    IF Len(str) = 0 \/ ~IsDigit(SubSeq(str, 1, 1)) THEN ""
    ELSE SubSeq(str, 1, 1) \o leadingDigits(SubSeq(str, 2, Len(str)))

\* parseInt(digits, 10) for a non-empty string of digits
RECURSIVE parseDigits(_)
parseDigits(str) ==
    IF Len(str) = 0 THEN 0
    ELSE parseDigits(SubSeq(str, 1, Len(str) - 1)) * 10
             + DigitValue(SubSeq(str, Len(str), Len(str)))

\* the alternatives (?::|is|of|\(0-100\)) between a heading and its number
Separators(range) == {":", "is", "of", range}

\* an answer is a sequence of lines: a heading, a separator and a value
AnswerLines ==
    [name : {"Overall Score", "clarity", "Specificity", "context",
             "efficiency", "relevance"},
     sep : {":", "-"},
     value : {"7", "15", "250/100", "high"}]

Answers == UNION {[1..n -> AnswerLines] : n \in 0..MaxLines}

\* content.match(/<heading>\s*(?::|is|of|\(<range>\))\s*(\d+)/i): the
\* digits of the first place the pattern matches, Undef without a match
scoreMatch(content, heading, range) ==
    LET hits == SelectSeq(content, LAMBDA l :
                    /\ lowerString(l.name) = heading
                    /\ l.sep \in Separators(range)
                    /\ leadingDigits(l.value) # "")
    IN  IF hits = <<>> THEN Undef ELSE leadingDigits(Head(hits).value)

scoreOr(match, default) == IF match = Undef THEN default ELSE parseDigits(match)

parseEvaluationResponse(content) ==
    [overallScore |-> scoreOr(scoreMatch(content, "overall score", "(0-100)"), 50),
     clarity |-> scoreOr(scoreMatch(content, "clarity", "(0-10)"), 5),
     specificity |-> scoreOr(scoreMatch(content, "specificity", "(0-10)"), 5),
     context |-> scoreOr(scoreMatch(content, "context", "(0-10)"), 5),
     efficiency |-> scoreOr(scoreMatch(content, "efficiency", "(0-10)"), 5),
     relevance |-> scoreOr(scoreMatch(content, "relevance", "(0-10)"), 5)]

\* the score evaluatePrompt returns when the request fails or has no content
ErrorScore ==
    [overallScore |-> 50, clarity |-> 5, specificity |-> 5, context |-> 5,
     efficiency |-> 5, relevance |-> 5]

\* what the request gives: an answer with a content, or a failure (the
\* request is rejected, or the answer has no content)
Responses ==
    {[ok |-> FALSE, content |-> <<>>]}
        \cup {[ok |-> TRUE, content |-> a] : a \in Answers}

\* evaluatePrompt: whether a score object is returned, and the object
evaluatePromptScore(enabled, prompt, response) ==
    IF ~enabled \/ trim(prompt) = <<>>
    THEN [returned |-> FALSE, score |-> Undef]
    ELSE IF ~response.ok \/ response.content = <<>>
    THEN [returned |-> TRUE, score |-> ErrorScore]
    ELSE [returned |-> TRUE,
          score |-> parseEvaluationResponse(response.content)]

InitScore ==
    /\ prompts = <<>>
    /\ allPrompts = <<>>
    /\ nextId = 0
    /\ userFile = <<>>
    /\ favorites = <<>>
    /\ recentPrompts = <<>>
    /\ showFavoritesOnly = FALSE
    /\ showRecentOnly = FALSE
    /\ \E prompt \in {<<>>, <<"fix">>}, response \in Responses :
           last = [NoCall EXCEPT !.body = prompt, !.arg = response]
    /\ lastIssued = 0
    /\ saveFailures = 0
    /\ suspended = <<>>
    /\ analytics = NoAnalytics

EvaluatePrompt ==
    /\ last.op = "none"
    /\ \E enabled \in BOOLEAN :
       \E r \in {evaluatePromptScore(enabled, last.body, last.arg)} :
           last' = [last EXCEPT !.op = "evaluatePrompt",
                                !.returned = r.returned, !.ret = r.score]
    /\ UNCHANGED <<suspended, analytics>>
    /\ UNCHANGED <<prompts, allPrompts, nextId, userFile, prefs, lastIssued,
                   saveFailures>>

NextScore == EvaluatePrompt

SpecScore == InitScore /\ [][NextScore]_vars

\* C21: every score object the evaluator returns, parsed from any answer of
\* the model or a fallback, has overallScore in 0..100 and clarity,
\* specificity, context, efficiency and relevance in 0..10.
C21_ScoresInRange ==
    (last.op = "evaluatePrompt" /\ last.returned) =>
        /\ last.ret.overallScore \in 0..100
        /\ last.ret.clarity \in 0..10
        /\ last.ret.specificity \in 0..10
        /\ last.ret.context \in 0..10
        /\ last.ret.efficiency \in 0..10
        /\ last.ret.relevance \in 0..10

(***************************************************************************)
(* The add and edit commands with their input boxes                        *)
(***************************************************************************)
\* what showInputBox resolves to: the text typed, or undefined when the box
\* is dismissed
Typed(value) == [dismissed |-> FALSE, value |-> value]
LabelBoxes == {[dismissed |-> TRUE, value |-> ""]}
                  \cup {Typed(l) : l \in CommandLabels}
BodyBoxes == {[dismissed |-> TRUE, value |-> <<>>]}
                 \cup {Typed(b) : b \in CommandBodies}
TagBoxes == {[dismissed |-> TRUE, value |-> <<>>]}
                \cup {Typed(t) : t \in CommandTagInputs}

\* !text for the result of a box: undefined and the empty text are falsy
Falsy(box, empty) == box.dismissed \/ box.value = empty

\* the prompt-library.addPrompt command
cmdAddPrompt(lib, categoryEntry, label, prompt, tagsInput, outcome, saveOk) ==
    IF Falsy(label, "") \/ Falsy(prompt, <<>>)
    THEN Done(lib, <<>>, FALSE, FALSE, FALSE, FALSE, FALSE)
    ELSE LET tags == IF Falsy(tagsInput, <<>>) THEN <<>>
                     ELSE parseTags(tagsInput.value)
             parentId == IF categoryEntry # NullEntry THEN categoryEntry.id
                         ELSE getUserCategoryId(lib)
         IN  IF parentId = Undef
             THEN Done(lib, <<Msg("error", "Could not find User category")>>,
                       FALSE, FALSE, FALSE, FALSE, FALSE)
             ELSE LET r == addPrompt(lib, label.value,
                                     commandCleanPrompt(prompt.value), tags,
                                     parentId, outcome, saveOk)
                  IN  Done(r.lib,
                           IF r.threw THEN <<>>
                           ELSE <<Msg("info", "added successfully")>>,
                           TRUE, r.evaluated, r.wrote, r.threw, r.threw)

\* the prompt-library.editPrompt command over the results of its boxes
cmdEditPromptBoxes(lib, P, entry, label, prompt, tagsInput, outcome, saveOk) ==
    cmdEditPrompt(lib, P, entry,
                  IF Falsy(label, "") THEN "" ELSE label.value,
                  IF Falsy(prompt, <<>>) THEN <<>> ELSE prompt.value,
                  IF Falsy(tagsInput, <<>>) THEN <<>> ELSE tagsInput.value,
                  outcome, saveOk)

\* the boxes a command opened and what they gave
RecordBoxes(op, entry, label, body, tagsInput, d) ==
    /\ SetLib(d.lib)
    /\ last' = [NoCall EXCEPT
                  !.op = op, !.arg = entry.id, !.entryType = entry.type,
                  !.threw = d.threw, !.messages = d.messages,
                  !.storeCalled = d.storeCalled,
                  !.evaluated = d.evaluated, !.wrote = d.wrote,
                  !.label = label.value, !.body = body.value,
                  !.cancelled = \/ label.dismissed
                                \/ body.dismissed
                                \/ tagsInput.dismissed]
    /\ saveFailures' = IF d.saveFailed THEN saveFailures + 1
                                        ELSE saveFailures

\* a box is opened only when the boxes before it gave a text
CmdAddPromptBoxes ==
    \E categoryEntry \in {NullEntry}
                         \cup {e \in TreeEntries : e.type = "category"} :
    \E label \in LabelBoxes :
    \E body \in (IF Falsy(label, "") THEN {Typed(<<>>)} ELSE BodyBoxes) :
    \E tagsInput \in (IF Falsy(body, <<>>) THEN {Typed(<<>>)} ELSE TagBoxes) :
    \E saveOk \in {TRUE} :
    \E outcome \in OutcomesFor(saveOk) :
        /\ nextId <= MaxId
        /\ \E d \in {cmdAddPrompt(Lib, categoryEntry, label, body, tagsInput,
                                  outcome, saveOk)} :
               RecordBoxes("cmdAdd", categoryEntry, label, body, tagsInput, d)
        /\ UNCHANGED <<suspended, analytics>>
        /\ UNCHANGED <<prefs, lastIssued>>

CmdEditPromptBoxes ==
    \E entry \in {e \in TreeEntries : e.type = "prompt"} :
    \E label \in LabelBoxes :
    \E body \in (IF Falsy(label, "") THEN {Typed(<<>>)} ELSE BodyBoxes) :
    \E tagsInput \in (IF Falsy(body, <<>>) THEN {Typed(<<>>)} ELSE TagBoxes) :
    \E saveOk \in {TRUE} :
    \E outcome \in OutcomesFor(saveOk) :
        /\ \E d \in {cmdEditPromptBoxes(Lib, Prefs, entry, label, body,
                                        tagsInput, outcome, saveOk)} :
               RecordBoxes("cmdEdit", entry, label, body, tagsInput, d)
        /\ UNCHANGED <<suspended, analytics>>
        /\ UNCHANGED <<prefs, lastIssued>>

NextBoxes == CmdAddPromptBoxes \/ CmdEditPromptBoxes

SpecBoxes == Init /\ [][NextBoxes]_vars

\* C23: when an input box of the add or the edit command is dismissed, be it
\* the label, the body or the tags box, the command stops there: the store is
\* not called, nothing is written and every prompt keeps its label, body and
\* tags.
C23_DismissedBoxAborts ==
    [][(last'.op \in {"cmdAdd", "cmdEdit"} /\ last'.cancelled)
          => /\ ~last'.storeCalled
             /\ ~last'.wrote
             /\ prompts' = prompts
             /\ allPrompts' = allPrompts
             /\ userFile' = userFile]_vars

\* C24: after the add or the edit command no prompt of the store has an empty
\* label or an empty body: an empty input, and a body that is empty after the
\* tags and example markers are stripped, never reaches the store.
C24_NoEmptyPromptStored ==
    last.op \in {"cmdAdd", "cmdEdit"} =>
        /\ \A e \in AllNodes(prompts) :
               e.type = "prompt" => (e.label # "" /\ e.prompt # <<>>)
        /\ (last.label = "" \/ commandCleanPrompt(last.body) = <<>>)
               => ~last.storeCalled

(***************************************************************************)
(* Usage analytics: the library and the context manager on one store       *)
(***************************************************************************)
MaxUses == 4          \* no call is started once a totalUses has reached it

\* totalUses++ and promptUsage[promptId] = (promptUsage[promptId] || 0) + 1
countUse(usage, promptId) ==
    [totalUses |-> usage.totalUses + 1,
     promptUsage |-> [usage.promptUsage EXCEPT ![promptId] = @ + 1]]

\* ContextIntegrationManager.loadAnalytics, run by the constructor.  Whether
\* globalState.get hands out the object it holds or a copy of it is left to
\* the host: byReference
loadAnalytics(an) ==
    [an EXCEPT !.manager = IF an.present THEN an.stored ELSE EmptyUsage,
               !.shared = an.present /\ an.byReference]

\* PromptLibrary.trackPromptInteraction: get (or the default object), count,
\* update
trackPromptInteraction(an, promptId) ==
    LET updated == countUse(IF an.present THEN an.stored ELSE EmptyUsage,
                            promptId)
    IN  [an EXCEPT !.present = TRUE,
                   !.stored = updated,
                   !.manager = IF an.present /\ an.shared THEN updated ELSE @]

\* ContextIntegrationManager.trackUsage: count in this.analytics, then
\* saveAnalytics
trackUsage(an, promptId) ==
    LET updated == countUse(an.manager, promptId)
    IN  [an EXCEPT !.present = TRUE,
                   !.stored = updated,
                   !.manager = updated,
                   !.shared = an.byReference]

\* usageAnalytics left in globalState by an earlier session
EarlierUsage == [totalUses |-> 1,
                 promptUsage |-> [id \in UsageIds |->
                                     IF id = "2" THEN 1 ELSE 0]]

InitUsage ==
    /\ userFile = InitialUserFile
    /\ LET lib == loadPrompts([prompts |-> <<>>, allPrompts |-> <<>>,
                               nextId |-> 0, userFile |-> userFile])
       IN  /\ prompts = lib.prompts
           /\ allPrompts = lib.allPrompts
           /\ nextId = lib.nextId
    /\ favorites = <<>>
    /\ recentPrompts = <<>>
    /\ showFavoritesOnly = FALSE
    /\ showRecentOnly = FALSE
    /\ last = NoCall
    /\ lastIssued = 0
    /\ saveFailures = 0
    /\ suspended = <<>>
    /\ \E present \in BOOLEAN, byReference \in BOOLEAN :
           analytics = loadAnalytics(
               [present |-> present,
                stored |-> IF present THEN EarlierUsage ELSE EmptyUsage,
                manager |-> EmptyUsage, shared |-> FALSE,
                byReference |-> byReference])

\* a call of the public trackPromptInteraction (toggleFavorite, addToRecent,
\* the copy and use commands call it)
TrackPromptInteraction ==
    \E promptId \in UsageIds :
        /\ analytics.stored.totalUses < MaxUses
        /\ analytics' = trackPromptInteraction(analytics, promptId)
        /\ last' = [NoCall EXCEPT !.op = "trackPromptInteraction",
                                  !.arg = promptId]
        /\ UNCHANGED <<prompts, allPrompts, nextId, userFile, prefs,
                       lastIssued, saveFailures, suspended>>

\* the tracking executeContextPrompt starts with: trackPromptInteraction,
\* then trackUsage; last.values keeps what was stored between the two
ContextPromptTracking ==
    \E promptId \in UsageIds :
    \E mid \in {trackPromptInteraction(analytics, promptId)} :
        /\ analytics.stored.totalUses < MaxUses
        /\ analytics.manager.totalUses < MaxUses
        /\ analytics' = trackUsage(mid, promptId)
        /\ last' = [NoCall EXCEPT !.op = "trackUsage", !.arg = promptId,
                                  !.values = <<mid.stored>>]
        /\ UNCHANGED <<prompts, allPrompts, nextId, userFile, prefs,
                       lastIssued, saveFailures, suspended>>

NextUsage == TrackPromptInteraction \/ ContextPromptTracking

SpecUsage == InitUsage /\ [][NextUsage]_vars

\* one tracked interaction between two stored values
RaisedByOne(before, after) ==
    /\ after.totalUses = before.totalUses + 1
    /\ \A id \in UsageIds : after.promptUsage[id] >= before.promptUsage[id]

\* C28: whatever the order of trackPromptInteraction and trackUsage calls,
\* the stored totalUses and the stored count of every prompt never go down,
\* and each tracked interaction raises the stored totalUses by exactly one.
C28_StoredCountsNeverLost ==
    [][/\ last'.op = "trackPromptInteraction"
            => RaisedByOne(analytics.stored, analytics'.stored)
       /\ last'.op = "trackUsage"
            => /\ RaisedByOne(analytics.stored, last'.values[1])
               /\ RaisedByOne(last'.values[1], analytics'.stored)]_vars

(***************************************************************************)
(* addPrompt suspended at the evaluator while other handlers run           *)
(***************************************************************************)
MaxSuspended == 1     \* addPrompt calls waiting at the await at a time

\* addPrompt down to the await: the text is cleaned, generateId has given
\* the id and newPrompt is built
addPromptSuspend(lib, label, promptIn, tags, parentId) ==
    [lib |-> [lib EXCEPT !.nextId = @ + 1],
     call |-> [id |-> numToString(lib.nextId), label |-> label,
               prompt |-> cleanPromptText(promptIn), tags |-> tags,
               parentId |-> parentId]]

\* addPrompt from the await on, on the store as it is by then
addPromptResume(lib, call, outcome, saveOk) ==
    LET newPrompt == [id |-> call.id, label |-> call.label, type |-> "prompt",
                      categoryType |-> Undef, prompt |-> call.prompt,
                      tags |-> call.tags, children |-> <<>>,
                      parentId |-> call.parentId,
                      categoryId |-> call.parentId,
                      evaluation |-> addEvaluation(outcome)]
        parent == IF call.parentId = Undef THEN NullEntry
                  ELSE findById(lib.prompts, call.parentId)
        newGroup == parent # NullEntry /\ createsGroup(parent)
        attached ==
            IF parent = NullEntry THEN lib.prompts
            ELSE assignFound(lib.prompts, call.parentId,
                    attachToParent(parent, newPrompt,
                                   numToString(lib.nextId)))
        changed == [lib EXCEPT
                      !.nextId = IF newGroup THEN @ + 1 ELSE @,
                      !.prompts = attached,
                      !.allPrompts = Append(@,
                          [id |-> call.id, label |-> call.label,
                           prompt |-> call.prompt, tags |-> call.tags,
                           evaluation |-> addEvaluation(outcome)])]
    IN  IF saveOk
        THEN [lib |-> loadPrompts(loadPrompts(saveUserPromptsToJson(changed))),
              ret |-> call.id, threw |-> FALSE,
              evaluated |-> TRUE, wrote |-> TRUE]
        ELSE [lib |-> changed, ret |-> Undef, threw |-> TRUE,
              evaluated |-> TRUE, wrote |-> FALSE]

AddPromptSuspend ==
    \E label \in Labels, body \in Bodies, tags \in TagLists,
       parentId \in {getUserCategoryId(Lib)} :
        /\ nextId <= MaxId
        /\ Len(suspended) < MaxSuspended
        /\ \E r \in {addPromptSuspend(Lib, label, body, tags, parentId)} :
               /\ SetLib(r.lib)
               /\ suspended' = Append(suspended, r.call)
               /\ last' = [NoCall EXCEPT !.op = "addSuspended",
                                         !.arg = r.call.id]
        /\ UNCHANGED <<prefs, lastIssued, saveFailures, analytics>>

AddPromptResume ==
    \E i \in 1..Len(suspended), saveOk \in SaveOutcomes :
    \E outcome \in OutcomesFor(saveOk) :
        /\ \E r \in {addPromptResume(Lib, suspended[i], outcome, saveOk)} :
               /\ SetLib(r.lib)
               /\ last' = [NoCall EXCEPT
                             !.op = "addResumed", !.ret = r.ret,
                             !.arg = suspended[i].id, !.threw = r.threw,
                             !.evaluated = r.evaluated, !.wrote = r.wrote,
                             !.storeCalled = TRUE]
               /\ CountFailure(r)
        /\ suspended' = SubSeq(suspended, 1, i - 1)
                            \o SubSeq(suspended, i + 1, Len(suspended))
        /\ UNCHANGED <<prefs, lastIssued, analytics>>

NextInterleaved ==
    \/ AddPromptSuspend
    \/ AddPromptResume
    \/ AddPrompt
    \/ DeletePrompt

SpecInterleaved == Init /\ [][NextInterleaved]_vars

\* the ids of the forest, one for each node
RECURSIVE IdSeq(_)
IdSeq(entries) ==
    IF entries = <<>> THEN <<>>
    ELSE <<Head(entries).id>> \o IdSeq(Head(entries).children)
             \o IdSeq(Tail(entries))

\* C26: ids stay unique across the forest when handlers interleave at the
\* await of the evaluator: whatever adds, updates and deletes complete while
\* an add is suspended, no two nodes have the same id.
C26_IdsUniqueWhenInterleaved ==
    \A i, j \in 1..Len(IdSeq(prompts)) :
        i # j => IdSeq(prompts)[i] # IdSeq(prompts)[j]

====
